---- MODULE Spec2Model ----
(***************************************************************************)
(* Event dispatch and WASM instance registry of w3bstream.                 *)
(*                                                                         *)
(* The dispatcher (OnEventReceived) authenticates an event, resolves the   *)
(* publisher and the strategies, fans the event out to one task per        *)
(* matched handler, joins the tasks and returns the collected results.     *)
(* The registry (instances, AddInstance, DelInstance) is changed by the    *)
(* lifecycle operations concurrently with the dispatcher.                  *)
(* The async broker (ApiCallProcessor, ApiResultProcessor) runs api_call    *)
(* tasks from a work queue and hands their responses back as events.       *)
(***************************************************************************)
EXTENDS Integers, Sequences, FiniteSets, TLC

\* ------------------------------------------------------------------ bounds
\* Strategies the resolver returns for one event.
MaxHandlers == 2
\* Registry ids uuid.New().ID() can return.
MaxInstances == 1
\* Instance objects the lifecycle controller ever creates.
MaxObjs == 2
\* Calls of StartInstance, StopInstance and GetInstanceState.
MaxOps == 2
\* Tasks put on the work queue by producers.
MaxApiCalls == 2
\* Times the queue runs a task again after a retryable error.
MaxRetry == 1
\* Events in one HandleEvents request.
MaxEvents == 2

\* The ingress transports; each delivers one event, concurrently with the other.
Calls == {"http", "mqtt"}
InstanceIDs == 1..MaxInstances
Objs == 1..MaxObjs
\* The instances deployed while events are dispatched: one per registry id.
FirstObjs == { o \in Objs : o <= MaxInstances }

\* ------------------------------------------------------------ Go values
\* A nil pointer / nil error / nil interface; a non-nil one is <<value>>.
Nil == <<>>
Some(x) == <<x>>

\* ------------------------------------------------------- status errors
\* errors.New(s)
ErrorsNew(s) == [type |-> "errorString", s |-> s]
\* a constant of type status.Error
StatusError(v) == [type |-> "status.Error", s |-> v]

InvalidAuthValue == StatusError("InvalidAuthValue")
InvalidAuthPorjectID == StatusError("InvalidAuthPorjectID")
NoProjectPermission == StatusError("NoProjectPermission")

\* status.Error.Key: the constants the generated switch names; others UNKNOWN.
Key(v) ==
    IF v \in {"BadRequest", "MD5ChecksumFailed", "Unauthorized", "NotFound",
              "Conflict", "InternalServerError", "UploadFileFailed",
              "ExtractFileFailed", "LoadVMFailed"}
    THEN v ELSE "UNKNOWN"

\* status.Error.Msg
Msg(v) ==
    CASE v = "BadRequest" -> "BadRequest"
      [] v = "MD5ChecksumFailed" -> ""
      [] v = "Unauthorized" -> "Unauthorized"
      [] v = "NotFound" -> "NotFound"
      [] v = "Conflict" -> "Conflict conflict error"
      [] v = "InternalServerError" -> "InternalServerError"
      [] v = "UploadFileFailed" -> ""
      [] v = "ExtractFileFailed" -> ""
      [] v = "LoadVMFailed" -> ""
      [] OTHER -> "-"

\* status.Error.CanBeTalk
CanBeTalk(v) == v = "Unauthorized"

\* status.Error.Code: int(v); the constant stands for its number.
Code(v) == v

\* status.Error.StatusErr
StatusErr(v) ==
    [Key |-> Key(v), Code |-> Code(v), Msg |-> Msg(v), CanBeTalk |-> CanBeTalk(v)]

\* status.Error.Error: the rendering of the StatusErr struct (key, code, message).
StatusErrorText(v) ==
    LET se == StatusErr(v)
    IN  "[" \o se.Key \o "][" \o se.Code \o "][" \o se.Msg \o "]"

\* err.Error() of an error value
Error(e) == IF e.type = "status.Error" THEN StatusErrorText(e.s) ELSE e.s

\* ------------------------------------------------------ the project context
\* types.MustProjectFromContext(ctx): the project the ingress resolved.
Project == [ProjectID |-> 1, Name |-> "P", SignKey |-> "keyP"]

\* ------------------------------------------------------------- the inputs
\* Bearer tokens an event can carry: empty, not a token of this project's key,
\* a token whose payload is not a string, one whose payload is no project id,
\* one of this project and one of another project.
Tokens == {"", "garbage", "tok:nonstring", "tok:notsfid", "tok:P", "tok:Q"}
Payloads == {"hi"}
HandlerNames == {"start"}

\* eventpb.Event: Header is a pointer.
\* The (pub_id, event_type) pairs of the headers: no publisher and the default
\* type, a registered publisher with a type, an unknown publisher.
Routes == { <<"", "">>, <<"pubA", "t7">>, <<"pubX", "">> }
Headers ==
    { [EventId |-> "e1", PubId |-> rt[1], EventType |-> rt[2], Token |-> tok] :
        rt \in Routes, tok \in Tokens }
Events ==
    { [Header |-> h, Payload |-> pl] : h \in {Nil} \cup {Some(x) : x \in Headers},
                                      pl \in Payloads }

\* ---------------------------------------------------------- authentication
\* jwt.Jwt.ParseToken under the project's signing key: the claim, or an error.
ParseToken(signKey, token) ==
    CASE token = "tok:P" /\ signKey = "keyP" ->
            [claim |-> [Payload |-> [isString |-> TRUE, v |-> "1"]], err |-> Nil]
      [] token = "tok:Q" /\ signKey = "keyP" ->
            [claim |-> [Payload |-> [isString |-> TRUE, v |-> "2"]], err |-> Nil]
      [] token = "tok:notsfid" /\ signKey = "keyP" ->
            [claim |-> [Payload |-> [isString |-> TRUE, v |-> "abc"]], err |-> Nil]
      [] token = "tok:nonstring" /\ signKey = "keyP" ->
            [claim |-> [Payload |-> [isString |-> FALSE, v |-> ""]], err |-> Nil]
      [] OTHER ->
            [claim |-> [Payload |-> [isString |-> FALSE, v |-> ""]],
             err |-> Some(InvalidAuthValue)]

\* types.SFID.UnmarshalText: a decimal text is an id, any other text an error.
UnmarshalText(v) ==
    CASE v = "1" -> [id |-> 1, err |-> Nil]
      [] v = "2" -> [id |-> 2, err |-> Nil]
      [] OTHER -> [id |-> 0, err |-> Some(ErrorsNew("invalid SFID"))]

\* publisherVerification with the comparison of the project ids left out.
publisherVerificationAnyProject(p, r) ==
    IF r.Header = Nil \/ r.Header[1].Token = ""
    THEN Some(ErrorsNew("message token is invalid"))
    ELSE LET parsed == ParseToken(p.SignKey, r.Header[1].Token)
             payload == parsed.claim.Payload
             projectID == UnmarshalText(payload.v)
         IN  IF parsed.err # Nil THEN parsed.err
             ELSE IF ~payload.isString THEN Some(InvalidAuthValue)
             ELSE IF projectID.err # Nil THEN Some(InvalidAuthPorjectID)
             ELSE Nil

\* publisherVerification(ctx, r, l): nil, or the error that rejects the event.
publisherVerification(p, r) ==
    IF r.Header = Nil \/ r.Header[1].Token = ""
    THEN Some(ErrorsNew("message token is invalid"))
    ELSE LET parsed == ParseToken(p.SignKey, r.Header[1].Token)
             payload == parsed.claim.Payload
             projectID == UnmarshalText(payload.v)
         IN  IF parsed.err # Nil THEN parsed.err
             ELSE IF ~payload.isString THEN Some(InvalidAuthValue)
             ELSE IF projectID.err # Nil THEN Some(InvalidAuthPorjectID)
             ELSE IF projectID.id = p.ProjectID THEN Nil
             ELSE Some(NoProjectPermission)

\* ------------------------------------------------------------- publishers
\* The publishers the store holds: (key, project) -> id and name.
Publishers ==
    { [PubKey |-> "pubA", ProjectName |-> "P", PublisherID |-> 7, Name |-> "A"] }

\* publisher.GetPublisherByPubKeyAndProjectName: the publisher, or an error.
GetPublisherByPubKeyAndProjectName(pubKey, projectName) ==
    LET hit == { x \in Publishers : x.PubKey = pubKey /\ x.ProjectName = projectName }
    IN  IF hit = {}
        THEN [pub |-> [PublisherID |-> 0, Name |-> ""],
              e |-> Some(ErrorsNew("publisher not found"))]
        ELSE [pub |-> [PublisherID |-> (CHOOSE x \in hit : TRUE).PublisherID,
                       Name |-> (CHOOSE x \in hit : TRUE).Name],
              e |-> Nil]

\* ------------------------------------------------------------- strategies
\* strategy.InstanceHandler values the resolver can return.
InstanceHandlers ==
    { [InstanceID |-> id, Handler |-> h] : id \in InstanceIDs, h \in HandlerNames }

\* The handler lists of at most n entries.
HandlerLists(n) ==
    UNION { [1..m -> InstanceHandlers] : m \in 0..n }

\* enums.EVENTTYPEDEFAULT
EVENTTYPEDEFAULT == "DEFAULT"

\* ---------------------------------------------------------- handler results
\* wasm.EventHandleResult
EventHandleResult(id, code, msg) ==
    [InstanceID |-> ToString(id), Code |-> code, ErrMsg |-> msg]

\* Codes a guest run ends with: Failed and OK.
GuestCodes == {-1, 0}

\* wasm.InstanceState
InstanceState_Created == "CREATED"
InstanceState_Started == "STARTED"
InstanceState_Stopped == "STOPPED"

\* ------------------------------------------------------- the async broker
ApiTasks == 1..MaxApiCalls

\* asynq.SkipRetry
SkipRetry == "asynq.SkipRetry"

\* fmt.Errorf with the %w verb left out: the error wraps nothing.
ErrorfNoWrap(msg, wrapped) == [type |-> "wrapError", s |-> msg, wraps |-> ""]

\* fmt.Errorf("<msg>: %w", wrapped)
Errorf(msg, wrapped) == [type |-> "wrapError", s |-> msg, wraps |-> wrapped]

\* errors.Is(err, target)
ErrorsIs(err, target) == err.type = "wrapError" /\ err.wraps = target

\* textproto.CanonicalMIMEHeaderKey, on the keys the envelopes use.
CanonicalMIMEHeaderKey(k) == IF k = "eventType" THEN "Eventtype" ELSE k

\* http.Header.Get(key): the value stored under the canonical form of key.
HeaderGet(h, key) ==
    IF CanonicalMIMEHeaderKey(key) \in DOMAIN h
    THEN h[CanonicalMIMEHeaderKey(key)]
    ELSE ""

\* The header maps of the request envelopes: none naming an event type, one
\* naming it under the key as written, one under the canonical key, the last
\* also with a Content-Type and a Server header.
NoHeader == [k \in {} |-> ""]
RequestHeaders ==
    { NoHeader,
      [k \in {"eventType"} |-> "resp.v1"],
      [k \in {"Eventtype"} |-> "resp.v1"],
      [k \in {"Eventtype", "Content-Type", "Server"} |->
            IF k = "Eventtype" THEN "t7"
            ELSE IF k = "Server" THEN "guest" ELSE "text/plain"] }

\* apitypes.HttpRequest
HttpRequests ==
    { [Method |-> md, Url |-> "w3bstream://echo", Header |-> h,
       Body |-> IF "Content-Type" \in DOMAIN h THEN "pong" ELSE "ping"] :
        md \in {"GET"}, h \in RequestHeaders }
        \cup { [Method |-> "BAD METHOD", Url |-> "w3bstream://echo",
                Header |-> [k \in {"Eventtype"} |-> "resp.v1"], Body |-> "ping"] }

\* http.NewRequest: fails on a method that is no token.
NewRequest(apiReq) ==
    IF apiReq.Method = "BAD METHOD"
    THEN [req |-> Nil, err |-> Some(ErrorsNew("net/http: invalid method"))]
    ELSE [req |-> Some(apiReq), err |-> Nil]

\* The api_call tasks a producer enqueues: the task payload and the envelope
\* in it decode or not.
ApiCallPayloads ==
    { [payloadOK |-> TRUE, dataOK |-> TRUE, Project |-> pr, Data |-> rq] :
        pr \in {"P", "Q"}, rq \in HttpRequests }
        \cup { [payloadOK |-> ok[1], dataOK |-> ok[2], Project |-> "P",
                Data |-> CHOOSE rq \in HttpRequests : rq.Header = NoHeader] :
                ok \in {<<FALSE, FALSE>>, <<TRUE, FALSE>>} }

\* p.router.ServeHTTP(respRecorder, req): the recorded response of the echo
\* endpoint.
ServeHTTP(req) ==
    [Status |-> "200 OK", StatusCode |-> 200, Proto |-> "HTTP/1.1",
     Header |-> [k \in {"Content-Type", "Server"} |->
                    IF k = "Server" THEN "w3bstream" ELSE "application/json"],
     Body |-> req.Body]

\* json.Marshal / json.Unmarshal of a value.
Marshal(v) == [json |-> v]
Unmarshal(b) == b.json

\* ------------------------------------------------------------ the host ABI
\* wasm.ResultStatusCode_*: the status an import returns to the guest.
ResultStatusCode ==
    [OK |-> "OK", Failed |-> "Failed", ResourceNotFound |-> "ResourceNotFound",
     TransDataFromVMFailed |-> "TransDataFromVMFailed",
     TransDataToVMFailed |-> "TransDataToVMFailed",
     NoDBContext |-> "NoDBContext", EnvKeyNotFound |-> "EnvKeyNotFound",
     HostInternal |-> "HostInternal"]

\* The guest's linear memory, one cell per byte; the guest keeps JSON text in it.
Memory == <<"{", "}", "[", "]", "7">>

\* Whether the cell at address p lies inside the memory.
InBounds(p) == p >= 0 /\ p < Len(Memory)

\* Runtime.Read(addr, size): a copy of the range, or an error when the range
\* leaves the memory.
Read(addr, size) ==
    IF addr >= 0 /\ size >= 0 /\ addr + size <= Len(Memory)
    THEN [buf |-> SubSeq(Memory, addr + 1, addr + size), err |-> Nil]
    ELSE [buf |-> <<>>, err |-> Some("overflow")]

\* Runtime.Copy(data, vmAddrPtr, vmSizePtr): nil when the data reached the
\* guest, an error when an out pointer leaves the memory.
Copy(data, vmAddrPtr, vmSizePtr) ==
    IF InBounds(vmAddrPtr) /\ InBounds(vmSizePtr) THEN Nil ELSE Some("overflow")

\* The (addr, size) ranges a guest passes for a value, for a key and for a
\* JSON text, each with one range that leaves the memory; and the out pointers.
ValueRanges == { <<0, 0>>, <<0, 1>>, <<4, 2>> }
KeyRanges == { <<0, 1>>, <<1, 1>>, <<5, 1>> }
JsonRanges == { <<0, 2>>, <<2, 2>>, <<4, 1>>, <<1, 1>>, <<4, 2>> }
OutPointers == { <<0, 1>>, <<4, 5>> }

\* The width the ids are modelled at, in place of 32.
IntBits == 4

\* The resource ids a guest passes, as signed integers.
Rids == {-1, 0}

\* The conversion uint32(rid) with every id narrowed to one residue.
Uint32Narrow(rid) == 0

\* The conversion uint32(rid) of a signed id.
Uint32(rid) == rid % (2 ^ IntBits)

\* mapx.Map.Load(k): the value and whether the key is present.
Load(m, k) ==
    IF k \in DOMAIN m /\ m[k] # Nil
    THEN [data |-> m[k][1], ok |-> TRUE]
    ELSE [data |-> <<>>, ok |-> FALSE]

\* mapx.Map.Store(k, v)
Store(m, k, v) == [m EXCEPT ![k] = Some(v)]

\* The keys the guest's reads can produce.
KvKeys == { Read(r[1], r[2]).buf : r \in { x \in KeyRanges : Read(x[1], x[2]).err = Nil } }

\* wasm.KVStore.Get(key): (nil, nil) for a key never set, an error when the
\* store fails; a stored empty value comes back as an empty or as a nil slice.
KvsGet(kvs, key, emptyAsNil, getOK) ==
    IF ~getOK THEN [val |-> Nil, err |-> Some("kvs get failed")]
    ELSE IF kvs[key] = Nil THEN [val |-> Nil, err |-> Nil]
    ELSE IF kvs[key][1] = <<>> /\ emptyAsNil THEN [val |-> Nil, err |-> Nil]
    ELSE [val |-> kvs[key], err |-> Nil]

\* wasm.KVStore.Set(key, val)
KvsSet(kvs, key, val) == [kvs EXCEPT ![key] = Some(val)]

\* wasm.Env of the project: its keys and values.
Env == [k \in { <<"{">> } |-> <<"7">>]

\* gjson.Valid(str): whether the text is one JSON value.
Valid(str) == str \in { <<"{", "}">>, <<"[", "]">>, <<"7">> }

\* gjson.Result.IsArray of the parsed text.
IsArray(str) == Len(str) > 0 /\ str[1] = "["

\* gjson.Result.IsObject of the parsed text.
IsObject(str) == Len(str) > 0 /\ str[1] = "{"

\* The ExportFuncs NewExportFuncs builds from a context: empty resources and
\* stores; the optional collaborators are all there (linked) or all nil.
ExportFuncsOf(linked) ==
    [res |-> [k \in { Uint32(r) : r \in Rids } |-> Nil],
     kvs |-> [k \in KvKeys |-> Nil],
     env |-> IF linked THEN Some(Env) ELSE Nil,
     db |-> linked, cl |-> linked, mq |-> linked]

\* No import called yet.
AbiInit ==
    [fn |-> "", k |-> Nil, status |-> "", out |-> Nil, fault |-> "", fwd |-> Nil]

\* No set call has returned OK yet.
WrittenInit == [data |-> [r \in Rids |-> Nil], db |-> [k \in KvKeys |-> Nil]]

\* ------------------------------------------------------------ HandleEvents
\* The events of a HandleEventReq, before their ids are set: one without a
\* header, one that passes, one of another project, one of an unknown publisher.
BatchEvents ==
    { [Header |-> Nil, Payload |-> "hi"] } \cup
    { [Header |-> Some([EventId |-> "", PubId |-> x[1], EventType |-> "", Token |-> x[2]]),
       Payload |-> "hi"] : x \in { <<"", "tok:P">>, <<"", "tok:Q">>, <<"pubX", "tok:P">> } }

\* Event e as the k-th event of a request: its id names its position.
EventAt(k, e) ==
    IF e.Header = Nil THEN e
    ELSE [e EXCEPT !.Header = Some([@[1] EXCEPT !.EventId = "e" \o ToString(k)])]

\* HandleEventReq.Events: the lists of at most MaxEvents events.
HandleEventReqs ==
    UNION { { [k \in 1..m |-> EventAt(k, es[k])] : es \in [1..m -> BatchEvents] } :
            m \in 0..MaxEvents }

\* No HandleEvents call made yet.
BatchInit == [pc |-> "idle", events |-> <<>>, i |-> 0, results |-> <<>>]

\* No DelInstance call has returned yet. held counts, per instance, the calls
\* that got it from LoadAndRemove and ran `if i != nil && ... { i.Stop() }` on
\* it; ret is what the last call returned: whether LoadAndRemove found an
\* instance, the error, and for a call that found none its id and the
\* instances other calls had removed and not yet stopped.
DelInit == [held |-> [o \in Objs |-> 0], ret |-> Nil]

\* ------------------------------------------------------- resource upload
\* Sizes are counted in units of 100 * 1024 * 1024 bytes: the reserve is one.
reserve == 1

\* The sizes of uploaded files, the configured upload limits and the free
\* space disk.Usage reports.
MaxFileSize == 3
MaxUploadLimit == 2
MaxFree == 4
FileSizes == 0..MaxFileSize
UploadLimits == 1..MaxUploadLimit
FreeSpaces == 0..MaxFree

\* The call of Upload that fails, if any: os.MkdirAll, f.Open, the seek to the
\* end, disk.Usage, the seek to the start, os.OpenFile or io.Copy.
UploadFaults == {"", "mkdir", "open", "seekEnd", "usage", "seekStart", "openFile", "copy"}

\* errors.Wrap(err, message) of github.com/pkg/errors: nil when err is nil.
Wrap(err, message) ==
    IF err = Nil THEN Nil
    ELSE Some([type |-> "withStack", s |-> message, cause |-> err[1]])

\* The resource root of one id: whether its directory exists and the length of
\* the destination file in it (Nil: no such file); no Upload has returned.
UploadInit == [dir |-> FALSE, file |-> Nil, ret |-> Nil]

\* ------------------------------------------------------------------ state
VARIABLES
    instances,   \* the registry: id -> instance object, NoObj where absent
    state,       \* the lifecycle state of each instance object
    mu,          \* per instance: the invocation running inside it, or Nil
    delPending,  \* objects a DelInstance has removed and not yet stopped
    destroyed,   \* objects some DelInstance has removed from the registry
    call,        \* per OnEventReceived call: its position and locals
    task,        \* per call and handler index: the handler's goroutine
    removed,     \* the (id, instance) pairs LoadAndRemove has taken out
    op,          \* the last StartInstance/StopInstance/GetInstanceState call
    apiCall,     \* per api_call task: its input, status and executions
    apiResult,   \* per api_call task: the api_result task it enqueued
    dispatched,  \* per api_call task: the synthetic events handed to the dispatcher
    ef,          \* the ExportFuncs of one instance: its resources and stores
    abi,         \* the last Host ABI call of that instance's guest and its outcome
    written,     \* per rid and per key: the value of the last set call that returned OK
    del,         \* the DelInstance calls that held each instance, and the last return
    batch,       \* the HandleEvents call: its events, position and results
    up           \* the resource root: its directory, its file and the last Upload

async == <<apiCall, apiResult, dispatched>>

host == <<ef, abi, written>>

vars == <<instances, state, mu, delPending, destroyed, call, task, removed, op,
          apiCall, apiResult, dispatched, ef, abi, written, del, batch, up>>

NoObj == 0
\* An object no AddInstance has been given yet.
NotDeployed == "NONE"

CallInit ==
    [pc |-> "idle",
     r |-> [Header |-> Nil, Payload |-> ""],
     ret |-> Nil,
     err |-> Nil,
     handlers |-> <<>>,
     k |-> 1,
     res |-> <<>>,
     wg |-> 0,
     pubLookups |-> 0,
     strategyLookups |-> 0,
     found |-> Nil]

TaskInit ==
    [pc |-> "none", i |-> NoObj, fn |-> "", data |-> "",
     entryDestroyed |-> FALSE, result |-> Nil]

\* A queue slot holding no api_call task.
ApiCallInit ==
    [st |-> "none", payload |-> Nil, runs |-> 0, retried |-> 0, served |-> 0,
     enqueued |-> 0, err |-> Nil]

\* A queue slot holding no api_result task.
ApiResultInit ==
    [st |-> "none", payload |-> Nil, runs |-> 0, retried |-> 0, err |-> Nil]

\* No registry call made yet.
OpInit == [n |-> 0, fn |-> "", id |-> 0, err |-> Nil, state |-> "", ok |-> FALSE]

Init ==
    /\ instances = [id \in InstanceIDs |-> NoObj]
    /\ state = [o \in Objs |-> NotDeployed]
    /\ mu = [o \in Objs |-> Nil]
    /\ delPending = {}
    /\ destroyed = {}
    /\ call = [c \in Calls |-> CallInit]
    /\ task = [c \in Calls |-> [k \in 1..MaxHandlers |-> TaskInit]]
    /\ removed = {}
    /\ op = OpInit
    /\ apiCall = [t \in ApiTasks |-> ApiCallInit]
    /\ apiResult = [t \in ApiTasks |-> ApiResultInit]
    /\ dispatched = [t \in ApiTasks |-> <<>>]
    /\ ef = ExportFuncsOf(TRUE)
    /\ abi = AbiInit
    /\ written = WrittenInit
    /\ del = DelInit
    /\ batch = BatchInit
    /\ up = UploadInit

\* ------------------------------------------------------------ the registry
\* vm.GetConsumer(id): the instance stored under id, nil (NoObj) when absent.
GetConsumer(id) == instances[id]

\* Whether object o is stored in the registry under some id.
Registered(o) == \E id \in InstanceIDs : instances[id] = o

\* AddInstance(i): store the freshly created instance o under uuid.New().ID(),
\* any 32-bit id, taken or not. The instance enters the registry in CREATED.
AddInstance(o) ==
    /\ state[o] = NotDeployed
    /\ \A x \in Objs : x < o => state[x] # NotDeployed
    /\ \E id \in InstanceIDs :
        /\ instances' = [instances EXCEPT ![id] = o]
        /\ state' = [state EXCEPT ![o] = InstanceState_Created]
    /\ UNCHANGED <<mu, delPending, destroyed, call, task, removed, op, async, host, up, del, batch>>

\* wasm.Instance.Start, called by the lifecycle controller on a registered instance.
InstanceStart(o) ==
    /\ Registered(o)
    /\ state[o] \in {InstanceState_Created, InstanceState_Stopped}
    /\ state' = [state EXCEPT ![o] = InstanceState_Started]
    /\ UNCHANGED <<instances, mu, delPending, destroyed, call, task, removed, op, async, host, up, del, batch>>

\* wasm.Instance.Stop: STARTED -> STOPPED.
Stop(o) == [state EXCEPT ![o] = InstanceState_Stopped]

\* wasm.Instance.Stop, called by the lifecycle controller on a registered instance.
InstanceStop(o) ==
    /\ Registered(o)
    /\ state[o] = InstanceState_Started
    /\ state' = Stop(o)
    /\ UNCHANGED <<instances, mu, delPending, destroyed, call, task, removed, op, async, host, up, del, batch>>

\* DelInstance(id) with instances.Load(id) in place of LoadAndRemove: the
\* entry stays in the registry.
DelInstanceLoadOnly(id) ==
    /\ instances[id] # NoObj
    /\ delPending' = delPending \cup {instances[id]}
    /\ destroyed' = destroyed \cup {instances[id]}
    /\ removed' = removed \cup {<<id, instances[id]>>}
    /\ UNCHANGED <<instances, state, mu, call, task, op, async, host, up, del, batch>>

\* DelInstance(id), first half: instances.LoadAndRemove(id).
DelInstance(id) ==
    /\ instances[id] # NoObj
    /\ instances' = [instances EXCEPT ![id] = NoObj]
    /\ delPending' = delPending \cup {instances[id]}
    /\ destroyed' = destroyed \cup {instances[id]}
    /\ removed' = removed \cup {<<id, instances[id]>>}
    /\ UNCHANGED <<state, mu, call, task, op, async, host, up, del, batch>>

\* DelInstance(id), second half: stop the removed instance if it is STARTED,
\* and return nil.
DelInstanceStop(o) ==
    /\ o \in delPending
    /\ delPending' = delPending \ {o}
    /\ state' = IF state[o] = InstanceState_Started THEN Stop(o) ELSE state
    /\ del' = [del EXCEPT !.held[o] = @ + 1,
                          !.ret = Some([found |-> TRUE, err |-> Nil,
                                        id |-> 0, pending |-> {}])]
    /\ UNCHANGED <<instances, mu, destroyed, call, task, removed, op, async, host, up, batch>>

\* DelInstance(id) on an id the registry does not hold: LoadAndRemove finds
\* nothing, nothing is stopped, and nil is returned.
DelInstanceAbsent(id) ==
    /\ instances[id] = NoObj
    /\ del' = [del EXCEPT !.ret = Some([found |-> FALSE, err |-> Nil,
                                        id |-> id, pending |-> delPending])]
    /\ UNCHANGED <<instances, state, mu, delPending, destroyed, call, task, removed,
                   op, async, host, up, batch>>

\* A registry call returning: op holds its number, name, argument and results.
Called(fn, id, err, st, ok) ==
    [n |-> op.n + 1, fn |-> fn, id |-> id, err |-> err, state |-> st, ok |-> ok]

\* StartInstance(id): returns nil and does nothing else.
StartInstance(id) ==
    /\ op.n < MaxOps
    /\ op' = Called("StartInstance", id, Nil, "", FALSE)
    /\ UNCHANGED <<instances, state, mu, delPending, destroyed, call, task,
                   removed, async, host, up, del, batch>>

\* StopInstance(id): returns nil and does nothing else.
StopInstance(id) ==
    /\ op.n < MaxOps
    /\ op' = Called("StopInstance", id, Nil, "", FALSE)
    /\ UNCHANGED <<instances, state, mu, delPending, destroyed, call, task,
                   removed, async, host, up, del, batch>>

\* What GetInstanceState(id) returns: (wasm.InstanceState_Stopped, true).
GetInstanceStateValue(id) == [state |-> InstanceState_Stopped, ok |-> TRUE]

\* GetInstanceState(id)
GetInstanceState(id) ==
    /\ op.n < MaxOps
    /\ op' = Called("GetInstanceState", id, Nil,
                    GetInstanceStateValue(id).state, GetInstanceStateValue(id).ok)
    /\ UNCHANGED <<instances, state, mu, delPending, destroyed, call, task,
                   removed, async, host, up, del, batch>>

\* ---------------------------------------------------------- the dispatcher
\* &HandleEventResult{ProjectName: projectName, EventID: r.Header.EventId}
NewHandleEventResult(projectName, eventID) ==
    [ProjectName |-> projectName, PubID |-> 0, PubName |-> "",
     EventID |-> eventID, ErrMsg |-> "", WasmResults |-> <<>>]

\* A return whose deferred function writes ErrMsg whether or not err is nil.
ReturnAlwaysErrMsg(cr, ret, err) ==
    [cr EXCEPT !.pc = "returned",
               !.err = err,
               !.ret = Some([ret EXCEPT !.ErrMsg = IF err # Nil
                                                   THEN Error(err[1])
                                                   ELSE "<nil>"])]

\* A return of OnEventReceived: the deferred function copies a non-nil err
\* into ret.ErrMsg.
Return(cr, ret, err) ==
    [cr EXCEPT !.pc = "returned",
               !.err = err,
               !.ret = Some(IF err # Nil
                            THEN [ret EXCEPT !.ErrMsg = Error(err[1])]
                            ELSE ret)]

\* strategy.FindStrategyInstances: what the resolver can answer, a list of
\* handlers or an error of the store.
FindStrategyInstances(projectName, eventType) ==
    { [handlers |-> hs, err |-> Nil] : hs \in HandlerLists(MaxHandlers) }
        \cup { [handlers |-> <<>>, err |-> Some(ErrorsNew("find strategy failed"))] }

\* The synthetic result with the success code in place of -1.
InstanceNotFoundOK(id) == EventHandleResult(id, 0, "instance not found")

\* The result the dispatcher synthesizes for an instance absent from the registry.
InstanceNotFound(id) == EventHandleResult(id, -1, "instance not found")

\* OnEventReceived(ctx, projectName, r) from its entry to the creation of the
\* result channel.
OnEventReceivedOf(c, r) ==
    /\ call[c].pc = "idle"
    /\  LET projectName == Project.Name
            cr == [call[c] EXCEPT !.r = r]
        IN
        IF r.Header = Nil
        THEN \* r.Header.EventId dereferences the nil header
             call' = [call EXCEPT ![c] = [cr EXCEPT !.pc = "panicked"]]
        ELSE
        LET ret == NewHandleEventResult(projectName, r.Header[1].EventId)
            err == publisherVerification(Project, r)
            hasPub == r.Header # Nil /\ r.Header[1].PubId # ""
            got == GetPublisherByPubKeyAndProjectName(r.Header[1].PubId, projectName)
            ret2 == IF hasPub
                    THEN [ret EXCEPT !.PubID = got.pub.PublisherID,
                                     !.PubName = got.pub.Name]
                    ELSE ret
            crp == IF hasPub THEN [cr EXCEPT !.pubLookups = @ + 1] ELSE cr
            eventType == IF r.Header # Nil /\ r.Header[1].EventType # ""
                         THEN r.Header[1].EventType
                         ELSE EVENTTYPEDEFAULT
        IN
        IF err # Nil
        THEN call' = [call EXCEPT ![c] = Return(cr, ret, err)]
        ELSE IF hasPub /\ got.e # Nil
        THEN \* a bare return: err is still nil
             call' = [call EXCEPT ![c] = Return(crp, ret, err)]
        ELSE \E found \in FindStrategyInstances(projectName, eventType) :
             LET crs == [crp EXCEPT !.strategyLookups = @ + 1,
                                    !.found = Some(found)]
             IN
             IF found.err # Nil
             THEN call' = [call EXCEPT ![c] = Return(crs, ret2, found.err)]
             ELSE call' = [call EXCEPT ![c] =
                     [crs EXCEPT !.pc = IF Len(found.handlers) = 0
                                        THEN "wait" ELSE "fanout",
                                 !.ret = Some(ret2),
                                 !.handlers = found.handlers,
                                 !.k = 1,
                                 !.res = <<>>,
                                 !.wg = 0]]
    /\ UNCHANGED <<instances, state, mu, delPending, destroyed, task, removed, op, async, host, up, del, batch>>

\* An ingress transport handing one event, any event, to OnEventReceived.
OnEventReceived(c) == \E r \in Events : OnEventReceivedOf(c, r)

\* A result channel holding one result at most.
CapOne(c) == 1

\* make(chan *wasm.EventHandleResult, len(handlers)): the channel's capacity.
Cap(c) == Len(call[c].handlers)

\* A send on the channel goes through only while the buffer has room.
CanSend(c) == Len(call[c].res) < Cap(c)

\* One iteration of the fan-out loop: look the instance up; send the synthetic
\* result when it is absent, start the handler's goroutine when it is present.
FanOut(c) ==
    /\ call[c].pc = "fanout"
    /\ LET k == call[c].k
           v == call[c].handlers[k]
           i == GetConsumer(v.InstanceID)
           next == IF k = Len(call[c].handlers) THEN "wait" ELSE "fanout"
       IN
       IF i = NoObj
       THEN /\ CanSend(c)
            /\ call' = [call EXCEPT ![c].res = Append(@, Some(InstanceNotFound(v.InstanceID))),
                                    ![c].k = k + 1,
                                    ![c].pc = next]
            /\ task' = task
       ELSE /\ call' = [call EXCEPT ![c].wg = @ + 1,
                                    ![c].k = k + 1,
                                    ![c].pc = next]
            /\ task' = [task EXCEPT ![c][k] = [@ EXCEPT !.pc = "spawned", !.i = i]]
    /\ UNCHANGED <<instances, state, mu, delPending, destroyed, removed, op, async, host, up, del, batch>>

\* The goroutine's `res <- result` and its deferred wg.Done().
Send(c, result) ==
    [call EXCEPT ![c].res = Append(@, result), ![c].wg = @ - 1]

\* HandleEvent without the check of the lifecycle state.
HandleEventLegalAnyState(o) == state[o] # NotDeployed

\* Instance.HandleEvent is legal only on an instance in STARTED.
HandleEventLegal(o) == state[o] = InstanceState_Started

\* HandleEvent without the per-instance serialization.
CanEnterAlways(o) == TRUE

\* Per-instance serialization: an invocation enters the instance only when no
\* other invocation is inside.
CanEnter(o) == mu[o] = Nil

\* Instance.HandleEvent, entry: an instance that is not STARTED answers at once
\* with a NoInstance result, which the goroutine sends; a STARTED one is entered
\* once no other invocation is inside.
HandleEventEnter(c, k) ==
    /\ task[c][k].pc = "spawned"
    /\ LET o == task[c][k].i
           v == call[c].handlers[k]
           t == [task[c][k] EXCEPT !.fn = v.Handler,
                                   !.data = call[c].r.Payload,
                                   !.entryDestroyed = (o \in destroyed)]
       IN
       IF ~HandleEventLegal(o)
       THEN /\ CanSend(c)
            /\ task' = [task EXCEPT ![c][k] =
                    [t EXCEPT !.pc = "done",
                              !.result = Some(InstanceNotFound(v.InstanceID))]]
            /\ call' = Send(c, Some(InstanceNotFound(v.InstanceID)))
            /\ mu' = mu
       ELSE /\ CanEnter(o)
            /\ mu' = [mu EXCEPT ![o] = Some(<<c, k>>)]
            /\ task' = [task EXCEPT ![c][k] = [t EXCEPT !.pc = "guest"]]
            /\ call' = call
    /\ UNCHANGED <<instances, state, delPending, destroyed, removed, op, async, host, up, del, batch>>

\* Instance.HandleEvent, exit: the guest's run ends with a code, the instance
\* is left, and the goroutine sends the result.
HandleEventReturn(c, k) ==
    /\ task[c][k].pc = "guest"
    /\ CanSend(c)
    /\ \E code \in GuestCodes :
        LET result == Some(EventHandleResult(
                            call[c].handlers[k].InstanceID, code,
                            IF code = 0 THEN "" ELSE "handle failed"))
        IN  /\ task' = [task EXCEPT ![c][k] =
                        [@ EXCEPT !.pc = "done", !.result = result]]
            /\ call' = Send(c, result)
    /\ mu' = [mu EXCEPT ![task[c][k].i] = Nil]
    /\ UNCHANGED <<instances, state, delPending, destroyed, removed, op, async, host, up, del, batch>>

\* The drain loop skipping the failed results along with the nil ones.
CollectSkipsFailed(res) ==
    LET kept == SelectSeq(res, LAMBDA v : v # Nil /\ v[1].Code >= 0)
    IN  [n \in 1..Len(kept) |-> kept[n][1]]

\* `for v := range res`: the non-nil results in channel order.
Collect(res) ==
    LET kept == SelectSeq(res, LAMBDA v : v # Nil)
    IN  [n \in 1..Len(kept) |-> kept[n][1]]

\* OnEventReceived closing and draining the channel without wg.Wait().
JoinWithoutWait(c) ==
    /\ call[c].pc = "wait"
    /\ call' = [call EXCEPT ![c] =
            Return(call[c],
                   [call[c].ret[1] EXCEPT !.WasmResults = @ \o Collect(call[c].res)],
                   Nil)]
    /\ UNCHANGED <<instances, state, mu, delPending, destroyed, task, removed, op, async, host, up, del, batch>>

\* wg.Wait(); close(res); drain the channel; return ret, nil.
Join(c) ==
    /\ call[c].pc = "wait"
    /\ call[c].wg = 0
    /\ call' = [call EXCEPT ![c] =
            Return(call[c],
                   [call[c].ret[1] EXCEPT !.WasmResults = @ \o Collect(call[c].res)],
                   Nil)]
    /\ UNCHANGED <<instances, state, mu, delPending, destroyed, task, removed, op, async, host, up, del, batch>>

\* ------------------------------------------------------- the async broker
\* The queue after ProcessTask returned err: completed on nil, archived on an
\* error wrapping SkipRetry or when the retries are used up, else run again.
QueueAfter(err, retried) ==
    IF err = Nil THEN "completed"
    ELSE IF ErrorsIs(err[1], SkipRetry) THEN "archived"
    ELSE IF retried < MaxRetry THEN "pending"
    ELSE "archived"

\* The producer: an api_call task enters the queue.
EnqueueApiCall(t) ==
    /\ apiCall[t].st = "none" /\ apiResult[t].st = "none"
    /\ \A x \in ApiTasks : x < t => (apiCall[x].st # "none" \/ apiResult[x].st # "none")
    /\ \E pl \in ApiCallPayloads :
        apiCall' = [apiCall EXCEPT ![t] = [ApiCallInit EXCEPT !.st = "pending",
                                                              !.payload = Some(pl)]]
    /\ UNCHANGED <<instances, state, mu, delPending, destroyed, call, task,
                   removed, op, apiResult, dispatched,
                   host, up, del, batch>>

\* An api_result task whose payload does not decode enters the queue.
EnqueueMalformedApiResult(t) ==
    /\ apiCall[t].st = "none" /\ apiResult[t].st = "none"
    /\ \A x \in ApiTasks : x < t => (apiCall[x].st # "none" \/ apiResult[x].st # "none")
    /\ apiResult' = [apiResult EXCEPT ![t] = [ApiResultInit EXCEPT !.st = "pending"]]
    /\ UNCHANGED <<instances, state, mu, delPending, destroyed, call, task,
                   removed, op, apiCall, dispatched,
                   host, up, del, batch>>

\* The header merge with the Content-Type test left out: every request header
\* overrides the response's.
RespHeaderOverrideAll(respHeader, reqHeader) ==
    [k \in DOMAIN respHeader \cup DOMAIN reqHeader |->
        IF k \in DOMAIN reqHeader THEN reqHeader[k] ELSE respHeader[k]]

\* The header map of the response envelope: the response's headers, overridden
\* by the request's except Content-Type.
RespHeader(respHeader, reqHeader) ==
    [k \in DOMAIN respHeader \cup (DOMAIN reqHeader \ {"Content-Type"}) |->
        IF k \in DOMAIN reqHeader /\ k # "Content-Type"
        THEN reqHeader[k] ELSE respHeader[k]]

\* eventType == "" with the test left out.
EventTypeNeverMissing(eventType) == FALSE

\* eventType == ""
EventTypeMissing(eventType) == eventType = ""

\* ProcessTask with the eventType test and the building of the api_result task
\* moved before the router call: such a request is failed without being
\* served.
ApiCallProcessCheckFirst(pl, readOK, marshalOK, newTaskOK, enqueueOK) ==
    LET fail(msg, served) ==
            [err |-> Some(Errorf(msg, SkipRetry)), served |-> served, enq |-> Nil]
    IN
    IF pl = Nil \/ ~pl[1].payloadOK THEN fail("json.Unmarshal failed", 0)
    ELSE IF ~pl[1].dataOK \/ NewRequest(pl[1].Data).err # Nil
    THEN fail("http.ReadRequest failed", 0)
    ELSE
    LET req == NewRequest(pl[1].Data).req[1]
        resp == ServeHTTP(req)
        eventType == HeaderGet(req.Header, "eventType")
        apiResp == [Status |-> resp.Status, StatusCode |-> resp.StatusCode,
                    Proto |-> resp.Proto,
                    Header |-> RespHeader(resp.Header, pl[1].Data.Header),
                    Body |-> resp.Body]
    IN
    IF EventTypeMissing(eventType) THEN fail("miss eventType", 0)
    ELSE IF ~newTaskOK THEN fail("new api result task failed", 0)
    ELSE IF ~readOK \/ ~marshalOK THEN fail("encode http response failed", 1)
    ELSE IF ~enqueueOK THEN fail("could not enqueue task", 1)
    ELSE [err |-> Nil, served |-> 1,
          enq |-> Some(Marshal([ProjectName |-> pl[1].Project,
                                EventType |-> eventType,
                                Data |-> Marshal(apiResp)]))]

\* ApiCallProcessor.ProcessTask on payload pl: the error it returns, whether
\* the request was served and the api_result payload it enqueued. The outcomes
\* of io.ReadAll, json.Marshal, newApiResultTask and cli.Enqueue are inputs.
ApiCallProcess(pl, readOK, marshalOK, newTaskOK, enqueueOK) ==
    LET fail(msg, served) ==
            [err |-> Some(Errorf(msg, SkipRetry)), served |-> served, enq |-> Nil]
    IN
    IF pl = Nil \/ ~pl[1].payloadOK THEN fail("json.Unmarshal failed", 0)
    ELSE IF ~pl[1].dataOK THEN fail("http.ReadRequest failed", 0)
    ELSE
    LET payload == pl[1]
        apiReq == payload.Data
        made == NewRequest(apiReq)
    IN
    IF made.err # Nil THEN fail("http.ReadRequest failed", 0)
    ELSE
    LET req == made.req[1]
        resp == ServeHTTP(req)
        projectName == payload.Project
        apiResp == [Status |-> resp.Status, StatusCode |-> resp.StatusCode,
                    Proto |-> resp.Proto,
                    Header |-> RespHeader(resp.Header, apiReq.Header),
                    Body |-> resp.Body]
        apiRespJson == Marshal(apiResp)
        eventType == HeaderGet(req.Header, "eventType")
    IN
    IF ~readOK THEN fail("encode http response failed", 1)
    ELSE IF ~marshalOK THEN fail("encode http response failed", 1)
    ELSE IF EventTypeMissing(eventType) THEN fail("miss eventType", 1)
    ELSE IF ~newTaskOK THEN fail("new api result task failed", 1)
    ELSE IF ~enqueueOK THEN fail("could not enqueue task", 1)
    ELSE [err |-> Nil, served |-> 1,
          enq |-> Some(Marshal([ProjectName |-> projectName,
                                EventType |-> eventType,
                                Data |-> apiRespJson]))]

\* The request worker runs ApiCallProcessor.ProcessTask on task t.
ApiCallProcessTask(t) ==
    /\ apiCall[t].st = "pending"
    /\ \E readOK, marshalOK, newTaskOK, enqueueOK \in BOOLEAN :
        LET out == ApiCallProcess(apiCall[t].payload, readOK, marshalOK,
                                  newTaskOK, enqueueOK)
            st == QueueAfter(out.err, apiCall[t].retried)
        IN  /\ apiCall' = [apiCall EXCEPT ![t] =
                    [@ EXCEPT !.st = st,
                              !.runs = @ + 1,
                              !.retried = IF st = "pending" THEN @ + 1 ELSE @,
                              !.served = @ + out.served,
                              !.enqueued = IF out.enq # Nil THEN @ + 1 ELSE @,
                              !.err = out.err]]
            /\ apiResult' = IF out.enq # Nil
                            THEN [apiResult EXCEPT ![t] =
                                    [ApiResultInit EXCEPT !.st = "pending",
                                                          !.payload = out.enq]]
                            ELSE apiResult
    /\ UNCHANGED <<instances, state, mu, delPending, destroyed, call, task,
                   removed, op, dispatched,
                   host, up, del, batch>>

\* event.HandleEvent(ctx, eventType, data): the dispatcher is entered with the
\* synthetic event; it answers with nil or with an error.
HandleEventErrs == {Nil, Some(ErrorsNew("send event failed"))}

\* The event of the default type whatever the payload names.
ResultEventDefaultType(payload) ==
    [ProjectName |-> payload.ProjectName,
     EventType |-> EVENTTYPEDEFAULT,
     Payload |-> payload.Data]

\* The synthetic event the result worker hands to event.HandleEvent: on the
\* project payload.ProjectName, of type payload.EventType, carrying payload.Data.
ResultEvent(payload) ==
    [ProjectName |-> payload.ProjectName,
     EventType |-> payload.EventType,
     Payload |-> payload.Data]

\* The result worker runs ApiResultProcessor.ProcessTask on task t.
ApiResultProcessTask(t) ==
    /\ apiResult[t].st = "pending"
    /\ IF apiResult[t].payload = Nil
       THEN LET err == Some(Errorf("json.Unmarshal failed", SkipRetry))
            IN  /\ apiResult' = [apiResult EXCEPT ![t] =
                        [@ EXCEPT !.st = QueueAfter(err, @.retried),
                                  !.runs = @ + 1,
                                  !.err = err]]
                /\ dispatched' = dispatched
       ELSE \E err \in HandleEventErrs :
            LET payload == Unmarshal(apiResult[t].payload[1])
                st == QueueAfter(err, apiResult[t].retried)
            IN  /\ dispatched' = [dispatched EXCEPT ![t] =
                        Append(@, ResultEvent(payload))]
                /\ apiResult' = [apiResult EXCEPT ![t] =
                        [@ EXCEPT !.st = st,
                                  !.runs = @ + 1,
                                  !.retried = IF st = "pending" THEN @ + 1 ELSE @,
                                  !.err = err]]
    /\ UNCHANGED <<instances, state, mu, delPending, destroyed, call, task,
                   removed, op, apiCall,
                   host, up, del, batch>>

\* The producers and the two workers of the broker.
NextAsync ==
    \/ \E t \in ApiTasks : EnqueueApiCall(t)
    \/ \E t \in ApiTasks : EnqueueMalformedApiResult(t)
    \/ \E t \in ApiTasks : ApiCallProcessTask(t)
    \/ \E t \in ApiTasks : ApiResultProcessTask(t)

SpecAsync == Init /\ [][NextAsync]_vars

\* Fair workers on a finite-delay queue: a pending task is eventually run.
SpecAsyncFair ==
    /\ SpecAsync
    /\ \A t \in ApiTasks : WF_vars(ApiCallProcessTask(t))
    /\ \A t \in ApiTasks : WF_vars(ApiResultProcessTask(t))

\* ------------------------------------------------------------ the host ABI
\* What stays as it is while the guest calls an import.
notHost == <<instances, state, mu, delPending, destroyed, call, task, removed,
             op, async, del, batch, up>>

\* An import returning: abi holds its name, its rid or key, the status, the
\* bytes copied out, and which transfer or collaborator failed, if any.
AbiCall(fn, k, status, out, fault) ==
    [fn |-> fn, k |-> k, status |-> status, out |-> out, fault |-> fault,
     fwd |-> Nil]

\* NewExportFuncs(ctx, rt): the ExportFuncs of a newly created instance.
NewExportFuncs(linked) ==
    /\ ef' = ExportFuncsOf(linked)
    /\ abi' = AbiInit
    /\ written' = WrittenInit
    /\ UNCHANGED notHost

\* ExportFuncs.GetData(rid, vmAddrPtr, vmSizePtr)
GetData(rid, vmAddrPtr, vmSizePtr) ==
    /\ LET ld == Load(ef.res, Uint32(rid)) IN
       IF ~ld.ok
       THEN abi' = AbiCall("GetData", Some(rid), ResultStatusCode.ResourceNotFound, Nil, "")
       ELSE IF Copy(ld.data, vmAddrPtr, vmSizePtr) # Nil
       THEN abi' = AbiCall("GetData", Some(rid), ResultStatusCode.TransDataToVMFailed, Nil, "copy")
       ELSE abi' = AbiCall("GetData", Some(rid), ResultStatusCode.OK, Some(ld.data), "")
    /\ UNCHANGED <<ef, written, notHost>>

\* SetData with the store made before the error of the read is looked at: a
\* failed read replaces the resource by the empty buffer.
SetDataStoreFirst(rid, addr, size) ==
    /\ LET rd == Read(addr, size) IN
       /\ ef' = [ef EXCEPT !.res = Store(@, Uint32(rid), rd.buf)]
       /\ IF rd.err # Nil
          THEN /\ abi' = AbiCall("SetData", Some(rid), ResultStatusCode.TransDataToVMFailed, Nil, "read")
               /\ UNCHANGED written
          ELSE /\ written' = [written EXCEPT !.data[rid] = Some(rd.buf)]
               /\ abi' = AbiCall("SetData", Some(rid), ResultStatusCode.OK, Nil, "")
    /\ UNCHANGED notHost

\* ExportFuncs.SetData(rid, addr, size)
SetData(rid, addr, size) ==
    /\ LET rd == Read(addr, size) IN
       IF rd.err # Nil
       THEN /\ abi' = AbiCall("SetData", Some(rid), ResultStatusCode.TransDataToVMFailed, Nil, "read")
            /\ UNCHANGED <<ef, written>>
       ELSE /\ ef' = [ef EXCEPT !.res = Store(@, Uint32(rid), rd.buf)]
            /\ written' = [written EXCEPT !.data[rid] = Some(rd.buf)]
            /\ abi' = AbiCall("SetData", Some(rid), ResultStatusCode.OK, Nil, "")
    /\ UNCHANGED notHost

\* ExportFuncs.GetDB(kAddr, kSize, vmAddrPtr, vmSizePtr)
GetDB(kAddr, kSize, vmAddrPtr, vmSizePtr) ==
    /\ LET key == Read(kAddr, kSize) IN
       IF key.err # Nil
       THEN abi' = AbiCall("GetDB", Nil, ResultStatusCode.ResourceNotFound, Nil, "read")
       ELSE \E emptyAsNil \in BOOLEAN, getOK \in BOOLEAN :
            LET got == KvsGet(ef.kvs, key.buf, emptyAsNil, getOK) IN
            IF got.err # Nil
            THEN abi' = AbiCall("GetDB", Some(key.buf), ResultStatusCode.ResourceNotFound, Nil, "io")
            ELSE IF got.val = Nil
            THEN abi' = AbiCall("GetDB", Some(key.buf), ResultStatusCode.ResourceNotFound, Nil, "")
            ELSE IF Copy(got.val[1], vmAddrPtr, vmSizePtr) # Nil
            THEN abi' = AbiCall("GetDB", Some(key.buf), ResultStatusCode.TransDataToVMFailed, Nil, "copy")
            ELSE abi' = AbiCall("GetDB", Some(key.buf), ResultStatusCode.OK, got.val, "")
    /\ UNCHANGED <<ef, written, notHost>>

\* ExportFuncs.SetDB(kAddr, kSize, vAddr, vSize)
SetDB(kAddr, kSize, vAddr, vSize) ==
    /\ LET key == Read(kAddr, kSize)
           val == Read(vAddr, vSize)
       IN
       IF key.err # Nil
       THEN /\ abi' = AbiCall("SetDB", Nil, ResultStatusCode.ResourceNotFound, Nil, "read")
            /\ UNCHANGED <<ef, written>>
       ELSE IF val.err # Nil
       THEN /\ abi' = AbiCall("SetDB", Some(key.buf), ResultStatusCode.ResourceNotFound, Nil, "read")
            /\ UNCHANGED <<ef, written>>
       ELSE \E setOK \in BOOLEAN :
            IF ~setOK
            THEN /\ abi' = AbiCall("SetDB", Some(key.buf), ResultStatusCode.Failed, Nil, "io")
                 /\ UNCHANGED <<ef, written>>
            ELSE /\ ef' = [ef EXCEPT !.kvs = KvsSet(@, key.buf, val.buf)]
                 /\ written' = [written EXCEPT !.db[key.buf] = Some(val.buf)]
                 /\ abi' = AbiCall("SetDB", Some(key.buf), ResultStatusCode.OK, Nil, "")
    /\ UNCHANGED notHost

\* ExportFuncs.SetSQLDB(addr, size); the outcomes of ParseQuery,
\* WithDefaultSchema and ExecContext are inputs.
SetSQLDB(addr, size) ==
    /\ IF ~ef.db
       THEN abi' = AbiCall("SetSQLDB", Nil, ResultStatusCode.NoDBContext, Nil, "")
       ELSE IF Read(addr, size).err # Nil
       THEN abi' = AbiCall("SetSQLDB", Nil, ResultStatusCode.ResourceNotFound, Nil, "read")
       ELSE \E parseOK \in BOOLEAN, schemaOK \in BOOLEAN, execOK \in BOOLEAN :
            IF ~parseOK \/ ~schemaOK \/ ~execOK
            THEN abi' = AbiCall("SetSQLDB", Nil, ResultStatusCode.Failed, Nil, "io")
            ELSE abi' = AbiCall("SetSQLDB", Nil, ResultStatusCode.OK, Nil, "")
    /\ UNCHANGED <<ef, written, notHost>>

\* ExportFuncs.GetSQLDB(addr, size, vmAddrPtr, vmSizePtr); the outcomes of
\* ParseQuery, WithDefaultSchema, QueryContext and JsonifyRows are inputs.
GetSQLDB(addr, size, vmAddrPtr, vmSizePtr) ==
    /\ IF ~ef.db
       THEN abi' = AbiCall("GetSQLDB", Nil, ResultStatusCode.NoDBContext, Nil, "")
       ELSE IF Read(addr, size).err # Nil
       THEN abi' = AbiCall("GetSQLDB", Nil, ResultStatusCode.ResourceNotFound, Nil, "read")
       ELSE \E parseOK \in BOOLEAN, schemaOK \in BOOLEAN, queryOK \in BOOLEAN,
               jsonifyOK \in BOOLEAN :
            LET ret == <<"[", "]">> IN
            IF ~parseOK \/ ~schemaOK \/ ~queryOK \/ ~jsonifyOK
            THEN abi' = AbiCall("GetSQLDB", Nil, ResultStatusCode.Failed, Nil, "io")
            ELSE IF Copy(ret, vmAddrPtr, vmSizePtr) # Nil
            THEN abi' = AbiCall("GetSQLDB", Nil, ResultStatusCode.TransDataToVMFailed, Nil, "copy")
            ELSE abi' = AbiCall("GetSQLDB", Nil, ResultStatusCode.OK, Some(ret), "")
    /\ UNCHANGED <<ef, written, notHost>>

\* The body SendTX, SendTXWithOperator and CallContract share: the chain
\* client's answer is an input.
ChainCall(fn, offset, size, vmAddrPtr, vmSizePtr) ==
    /\ IF ~ef.cl
       THEN abi' = AbiCall(fn, Nil, ResultStatusCode.Failed, Nil, "")
       ELSE IF Read(offset, size).err # Nil
       THEN abi' = AbiCall(fn, Nil, ResultStatusCode.Failed, Nil, "read")
       ELSE \E clientOK \in BOOLEAN :
            LET data == <<"7">> IN
            IF ~clientOK
            THEN abi' = AbiCall(fn, Nil, ResultStatusCode.Failed, Nil, "io")
            ELSE IF Copy(data, vmAddrPtr, vmSizePtr) # Nil
            THEN abi' = AbiCall(fn, Nil, ResultStatusCode.Failed, Nil, "copy")
            ELSE abi' = AbiCall(fn, Nil, ResultStatusCode.OK, Some(data), "")
    /\ UNCHANGED <<ef, written, notHost>>

\* ExportFuncs.SendTX(chainID, offset, size, vmAddrPtr, vmSizePtr)
SendTX(offset, size, vmAddrPtr, vmSizePtr) ==
    ChainCall("SendTX", offset, size, vmAddrPtr, vmSizePtr)

\* ExportFuncs.SendTXWithOperator(chainID, offset, size, vmAddrPtr, vmSizePtr)
SendTXWithOperator(offset, size, vmAddrPtr, vmSizePtr) ==
    ChainCall("SendTXWithOperator", offset, size, vmAddrPtr, vmSizePtr)

\* ExportFuncs.CallContract(chainID, offset, size, vmAddrPtr, vmSizePtr)
CallContract(offset, size, vmAddrPtr, vmSizePtr) ==
    ChainCall("CallContract", offset, size, vmAddrPtr, vmSizePtr)

\* ExportFuncs.SendMqttMsg(topicAddr, topicSize, msgAddr, msgSize)
SendMqttMsg(topicAddr, topicSize, msgAddr, msgSize) ==
    /\ IF ~ef.mq
       THEN abi' = AbiCall("SendMqttMsg", Nil, ResultStatusCode.Failed, Nil, "")
       ELSE IF Read(topicAddr, topicSize).err # Nil
       THEN abi' = AbiCall("SendMqttMsg", Nil, ResultStatusCode.Failed, Nil, "read")
       ELSE IF Read(msgAddr, msgSize).err # Nil
       THEN abi' = AbiCall("SendMqttMsg", Nil, ResultStatusCode.Failed, Nil, "read")
       ELSE \E publishOK \in BOOLEAN :
            IF ~publishOK
            THEN abi' = AbiCall("SendMqttMsg", Nil, ResultStatusCode.Failed, Nil, "io")
            ELSE abi' = AbiCall("SendMqttMsg", Nil, ResultStatusCode.OK, Nil, "")
    /\ UNCHANGED <<ef, written, notHost>>

\* ExportFuncs.ApiCall(kAddr, kSize, vmAddrPtr, vmSizePtr); the server's
\* response and the outcome of json.Marshal are inputs.
ApiCall(kAddr, kSize, vmAddrPtr, vmSizePtr) ==
    /\ IF Read(kAddr, kSize).err # Nil
       THEN abi' = AbiCall("ApiCall", Nil, ResultStatusCode.TransDataFromVMFailed, Nil, "read")
       ELSE \E marshalOK \in BOOLEAN :
            LET respJson == <<"{", "}">> IN
            IF ~marshalOK
            THEN abi' = AbiCall("ApiCall", Nil, ResultStatusCode.HostInternal, Nil, "io")
            ELSE IF Copy(respJson, vmAddrPtr, vmSizePtr) # Nil
            THEN abi' = AbiCall("ApiCall", Nil, ResultStatusCode.TransDataToVMFailed, Nil, "copy")
            ELSE abi' = AbiCall("ApiCall", Nil, ResultStatusCode.OK, Some(respJson), "")
    /\ UNCHANGED <<ef, written, notHost>>

\* ExportFuncs.GetEnv(kAddr, kSize, vmAddrPtr, vmSizePtr)
GetEnv(kAddr, kSize, vmAddrPtr, vmSizePtr) ==
    /\ LET key == Read(kAddr, kSize) IN
       IF ef.env = Nil
       THEN abi' = AbiCall("GetEnv", Nil, ResultStatusCode.EnvKeyNotFound, Nil, "")
       ELSE IF key.err # Nil
       THEN abi' = AbiCall("GetEnv", Nil, ResultStatusCode.TransDataToVMFailed, Nil, "read")
       ELSE IF key.buf \notin DOMAIN ef.env[1]
       THEN abi' = AbiCall("GetEnv", Some(key.buf), ResultStatusCode.EnvKeyNotFound, Nil, "")
       ELSE IF Copy(ef.env[1][key.buf], vmAddrPtr, vmSizePtr) # Nil
       THEN abi' = AbiCall("GetEnv", Some(key.buf), ResultStatusCode.TransDataToVMFailed, Nil, "copy")
       ELSE abi' = AbiCall("GetEnv", Some(key.buf), ResultStatusCode.OK,
                           Some(ef.env[1][key.buf]), "")
    /\ UNCHANGED <<ef, written, notHost>>

\* ExportFuncs.StatSubmit(vmAddrPtr, vmSizePtr); the collector's answer is an
\* input.
StatSubmit(vmAddrPtr, vmSizePtr) ==
    /\ LET rd == Read(vmAddrPtr, vmSizePtr)
           str == rd.buf
       IN
       IF rd.err # Nil
       THEN abi' = AbiCall("StatSubmit", Nil, ResultStatusCode.Failed, Nil, "read")
       ELSE IF ~Valid(str)
       THEN abi' = AbiCall("StatSubmit", Some(str), ResultStatusCode.Failed, Nil, "")
       ELSE IF IsArray(str)
       THEN abi' = AbiCall("StatSubmit", Some(str), ResultStatusCode.Failed, Nil, "")
       ELSE \E submitOK \in BOOLEAN :
            abi' = [AbiCall("StatSubmit", Some(str),
                            IF submitOK THEN ResultStatusCode.OK
                                        ELSE ResultStatusCode.Failed,
                            Nil, IF submitOK THEN "" ELSE "io")
                        EXCEPT !.fwd = Some(str)]
    /\ UNCHANGED <<ef, written, notHost>>

\* The imports one guest calls, one after the other.
NextABI ==
    \/ \E linked \in BOOLEAN : NewExportFuncs(linked)
    \/ \E rid \in Rids, p \in OutPointers : GetData(rid, p[1], p[2])
    \/ \E rid \in Rids, v \in ValueRanges : SetData(rid, v[1], v[2])
    \/ \E k \in KeyRanges, p \in OutPointers : GetDB(k[1], k[2], p[1], p[2])
    \/ \E k \in KeyRanges, v \in ValueRanges : SetDB(k[1], k[2], v[1], v[2])
    \/ \E q \in JsonRanges : SetSQLDB(q[1], q[2])
    \/ \E q \in JsonRanges, p \in OutPointers : GetSQLDB(q[1], q[2], p[1], p[2])
    \/ \E q \in JsonRanges, p \in OutPointers : SendTX(q[1], q[2], p[1], p[2])
    \/ \E q \in JsonRanges, p \in OutPointers : SendTXWithOperator(q[1], q[2], p[1], p[2])
    \/ \E q \in JsonRanges, p \in OutPointers : CallContract(q[1], q[2], p[1], p[2])
    \/ \E k \in KeyRanges, q \in JsonRanges : SendMqttMsg(k[1], k[2], q[1], q[2])
    \/ \E q \in JsonRanges, p \in OutPointers : ApiCall(q[1], q[2], p[1], p[2])
    \/ \E k \in KeyRanges, p \in OutPointers : GetEnv(k[1], k[2], p[1], p[2])
    \/ \E q \in JsonRanges : StatSubmit(q[1], q[2])

SpecABI == Init /\ [][NextABI]_vars

\* The lifecycle operations on the registry and its instances.
Lifecycle ==
    \/ \E o \in FirstObjs : AddInstance(o)
    \/ \E o \in Objs : InstanceStart(o)
    \/ \E o \in Objs : InstanceStop(o)
    \/ \E id \in InstanceIDs : DelInstance(id)
    \/ \E o \in Objs : DelInstanceStop(o)

\* The steps of the OnEventReceived call of transport c and of its goroutines.
Dispatch(c) ==
    \/ OnEventReceived(c)
    \/ FanOut(c)
    \/ \E k \in 1..MaxHandlers : HandleEventEnter(c, k)
    \/ \E k \in 1..MaxHandlers : HandleEventReturn(c, k)
    \/ Join(c)

\* One event in flight, with the lifecycle operations running beside it.
Next == Lifecycle \/ Dispatch("http")

Spec == Init /\ [][Next]_vars

\* Two events in flight, one per transport.
NextConc == Lifecycle \/ \E c \in Calls : Dispatch(c)

SpecConc == Init /\ [][NextConc]_vars

\* The registry's own calls, on instances that outnumber the ids.
Registry ==
    \/ \E o \in Objs : AddInstance(o)
    \/ \E id \in InstanceIDs : StartInstance(id)
    \/ \E id \in InstanceIDs : StopInstance(id)
    \/ \E id \in InstanceIDs : GetInstanceState(id)
    \/ \E id \in InstanceIDs : DelInstanceAbsent(id)

\* HandleEvents(ctx, projectName, r), entry: the result list is made and the
\* loop over r.Events begins; an empty request returns at once.
HandleEventsBegin(evs) ==
    /\ batch.pc = "idle"
    /\ call["http"].pc = "idle"
    /\ batch' = [pc |-> IF Len(evs) = 0 THEN "returned" ELSE "loop",
                 events |-> evs, i |-> 1, results |-> <<>>]
    /\ UNCHANGED <<instances, state, mu, delPending, destroyed, call, task, removed,
                   op, async, host, up, del>>

\* HandleEvents, loop body: OnEventReceived(ctx, projectName, &r.Events[i]).
HandleEventsCall ==
    /\ batch.pc = "loop"
    /\ OnEventReceivedOf("http", batch.events[batch.i])

\* HandleEvents, loop body: the call has returned; its ret is appended, its
\* error dropped, and the loop moves on or returns the results.
HandleEventsAppend ==
    /\ batch.pc = "loop"
    /\ call["http"].pc = "returned"
    /\ batch' = [batch EXCEPT !.results = Append(@, call["http"].ret),
                              !.i = @ + 1,
                              !.pc = IF batch.i = Len(batch.events)
                                     THEN "returned" ELSE "loop"]
    /\ call' = [call EXCEPT !["http"] = CallInit]
    /\ task' = [task EXCEPT !["http"] = [k \in 1..MaxHandlers |-> TaskInit]]
    /\ UNCHANGED <<instances, state, mu, delPending, destroyed, removed, op, async,
                   host, up, del>>

\* One HandleEvents request in flight, with the lifecycle operations beside it.
NextBatch ==
    \/ Lifecycle
    \/ \E evs \in HandleEventReqs : HandleEventsBegin(evs)
    \/ HandleEventsCall
    \/ HandleEventsAppend
    \/ FanOut("http")
    \/ \E k \in 1..MaxHandlers : HandleEventEnter("http", k)
    \/ \E k \in 1..MaxHandlers : HandleEventReturn("http", k)
    \/ Join("http")

SpecBatch == Init /\ [][NextBatch]_vars

\* One event in flight beside every registry and lifecycle operation.
NextRegistry == Registry \/ Lifecycle \/ Dispatch("http")

SpecRegistry == Init /\ [][NextRegistry]_vars

\* ------------------------------------------------------- resource upload
\* IsDirExists(root)
IsDirExists == up.dir

\* Upload returning err: up.ret holds the file's size, the limit, the usage
\* disk.Usage reported (Nil: none), the error, whether the destination file was
\* opened and whether io.Copy completed.
UploadReturn(size, limit, stat, err, opened, copied) ==
    Some([size |-> size, limit |-> limit, stat |-> stat, err |-> err,
          opened |-> opened, copied |-> copied])

\* Upload(ctx, f, id) of a file of the given size under conf.UploadLimit =
\* limit, with free bytes free on the disk; fault names the call that fails.
Upload(size, limit, free, fault) ==
    /\ LET failed(c) == Some(ErrorsNew(c \o " failed"))
           longer(a, b) == IF a > b THEN a ELSE b
       IN
       IF ~IsDirExists /\ fault = "mkdir"
       THEN up' = [up EXCEPT !.ret = UploadReturn(size, limit, Nil, failed("mkdir"), FALSE, FALSE)]
       ELSE IF fault = "open"
       THEN up' = [up EXCEPT !.dir = TRUE,
                             !.ret = UploadReturn(size, limit, Nil, failed("open"), FALSE, FALSE)]
       ELSE IF fault = "seekEnd"
       THEN up' = [up EXCEPT !.dir = TRUE,
                             !.ret = UploadReturn(size, limit, Nil, failed("seekEnd"), FALSE, FALSE)]
       ELSE
       LET filesize == size
           seekErr == Nil
       IN
       IF filesize > limit
       THEN up' = [up EXCEPT !.dir = TRUE,
                             !.ret = UploadReturn(size, limit, Nil,
                                                  Wrap(seekErr, "filesize over limit"),
                                                  FALSE, FALSE)]
       ELSE
       LET stat == IF fault = "usage" THEN Nil ELSE Some([Free |-> free])
           usageErr == IF fault = "usage" THEN failed("usage") ELSE Nil
       IN
       IF stat = Nil \/ stat[1].Free < filesize + reserve
       THEN up' = [up EXCEPT !.dir = TRUE,
                             !.ret = UploadReturn(size, limit, stat,
                                                  Wrap(usageErr, "disk limited"),
                                                  FALSE, FALSE)]
       ELSE IF fault = "seekStart"
       THEN up' = [up EXCEPT !.dir = TRUE,
                             !.ret = UploadReturn(size, limit, stat, failed("seekStart"), FALSE, FALSE)]
       ELSE IF fault = "openFile"
       THEN up' = [up EXCEPT !.dir = TRUE,
                             !.ret = UploadReturn(size, limit, stat, failed("openFile"), FALSE, FALSE)]
       ELSE
       LET created == IF up.file = Nil THEN 0 ELSE up.file[1] IN
       IF fault = "copy"
       THEN \E n \in 0..filesize :
                up' = [dir |-> TRUE, file |-> Some(longer(created, n)),
                       ret |-> UploadReturn(size, limit, stat, failed("copy"), TRUE, FALSE)]
       ELSE up' = [dir |-> TRUE, file |-> Some(longer(created, filesize)),
                   ret |-> UploadReturn(size, limit, stat, Nil, TRUE, TRUE)]
    /\ UNCHANGED <<instances, state, mu, delPending, destroyed, call, task, removed,
                   op, async, host, del, batch>>

\* Uploads to one resource root, one after the other.
NextUpload ==
    \E size \in FileSizes, limit \in UploadLimits, free \in FreeSpaces,
       fault \in UploadFaults : Upload(size, limit, free, fault)

SpecUpload == Init /\ [][NextUpload]_vars

\* ================================================================ properties
Returned(c) == call[c].pc = "returned"

\* How often x occurs in the sequence q.
Count(x, q) == Cardinality({ n \in 1..Len(q) : q[n] = x })

\* The handler indices of call c.
Matched(c) == 1..Len(call[c].handlers)

\* What handler k of call c contributed: its goroutine's result, or the
\* synthetic result when no goroutine was started for it.
ResultOf(c, k) ==
    IF task[c][k].pc = "none"
    THEN InstanceNotFound(call[c].handlers[k].InstanceID)
    ELSE task[c][k].result[1]

\* C1: every OnEventReceived call that returns holds as many WasmResults entries
\* as strategies were matched, instance-not-found entries included.
C1_ResultPerStrategy ==
    \A c \in Calls :
        Returned(c) => Len(call[c].ret[1].WasmResults) = Len(call[c].handlers)

\* C1 witness: a returned call with two matched strategies, one answered by the
\* synthetic entry and one by a handler.
C1_Witness ==
    \E c \in Calls :
        /\ Returned(c)
        /\ Len(call[c].handlers) = 2
        /\ Len(call[c].ret[1].WasmResults) = 2
        /\ \E j, k \in Matched(c) : task[c][j].pc = "none" /\ task[c][k].pc = "done"

\* C2: a call returns only after every goroutine it started has completed, and
\* the returned set holds the result of every handler, failed siblings or not.
C2_JoinsAllSiblings ==
    \A c \in Calls :
        Returned(c) =>
            /\ \A k \in Matched(c) : task[c][k].pc \in {"none", "done"}
            /\ call[c].wg = 0
            /\ \A k \in Matched(c) :
                Count(ResultOf(c, k), call[c].ret[1].WasmResults)
                    = Cardinality({ j \in Matched(c) : ResultOf(c, j) = ResultOf(c, k) })

\* C2 witness: a returned call one of whose handlers failed and whose sibling
\* succeeded, both results delivered.
C2_Witness ==
    \E c \in Calls :
        /\ Returned(c)
        /\ \E j, k \in Matched(c) :
            /\ task[c][j].pc = "done" /\ task[c][j].result[1].Code # 0
            /\ task[c][k].pc = "done" /\ task[c][k].result[1].Code = 0
            /\ Count(task[c][j].result[1], call[c].ret[1].WasmResults) >= 1
            /\ Count(task[c][k].result[1], call[c].ret[1].WasmResults) >= 1

\* C3: the registry lookup of a fan-out iteration decides: an absent instance
\* gets no goroutine and exactly one {id, -1, "instance not found"} result; a
\* present one gets its own goroutine, which invokes HandleEvent with the
\* strategy's handler and the event's payload, once.
C3_LookupDecides ==
    [][\A c \in Calls :
        /\ (call[c].pc = "fanout" /\ call'[c].k # call[c].k) =>
            LET k == call[c].k
                v == call[c].handlers[k]
            IN  IF instances[v.InstanceID] = NoObj
                THEN /\ task'[c][k].pc = "none"
                     /\ call'[c].wg = call[c].wg
                     /\ call'[c].res = Append(call[c].res,
                            Some(EventHandleResult(v.InstanceID, -1, "instance not found")))
                ELSE /\ task'[c][k].pc = "spawned"
                     /\ task'[c][k].i = instances[v.InstanceID]
                     /\ call'[c].wg = call[c].wg + 1
                     /\ call'[c].res = call[c].res
        /\ \A k \in 1..MaxHandlers :
            /\ task[c][k].pc = "none" =>
                /\ task'[c][k].pc \in {"none", "spawned"}
                /\ task'[c][k].fn = "" /\ task'[c][k].result = Nil
            /\ (task[c][k].pc = "none" /\ task'[c][k].pc = "spawned") =>
                call[c].pc = "fanout" /\ call[c].k = k
            /\ (task[c][k].pc = "spawned" /\ task'[c][k].pc # "spawned") =>
                /\ task'[c][k].pc \in {"guest", "done"}
                /\ task'[c][k].fn = call[c].handlers[k].Handler
                /\ task'[c][k].data = call[c].r.Payload
            /\ task[c][k].pc \in {"guest", "done"} =>
                /\ task'[c][k].pc \in {"guest", "done"}
                /\ task'[c][k].fn = task[c][k].fn
                /\ task'[c][k].data = task[c][k].data
    ]_vars

\* C3 witness: a returned call with an absent instance answered by exactly one
\* synthetic result and a present one whose handler was invoked.
C3_Witness ==
    \E c \in Calls :
        /\ Returned(c)
        /\ \E j, k \in Matched(c) :
            /\ task[c][j].pc = "none"
            /\ Count(EventHandleResult(call[c].handlers[j].InstanceID, -1,
                                       "instance not found"),
                     call[c].ret[1].WasmResults) = 1
            /\ task[c][k].pc = "done"
            /\ task[c][k].fn = call[c].handlers[k].Handler
            /\ task[c][k].data = call[c].r.Payload
            /\ task[c][k].result[1].Code = 0

\* Whether the event of call c fails authentication.
AuthFails(c) == publisherVerification(Project, call[c].r) # Nil

\* C4: an event that fails authentication (missing header or empty token,
\* unparseable token, payload that is no project id, other project) makes
\* OnEventReceived return the error, with no publisher lookup, no strategy
\* lookup, no handler invoked and an empty WasmResults.
C4_AuthFailureRejects ==
    \A c \in Calls :
        (call[c].pc # "idle" /\ AuthFails(c)) =>
            /\ Returned(c)
            /\ call[c].err = publisherVerification(Project, call[c].r)
            /\ call[c].pubLookups = 0
            /\ call[c].strategyLookups = 0
            /\ \A k \in 1..MaxHandlers : task[c][k].pc = "none"
            /\ call[c].ret[1].WasmResults = <<>>

\* Whether the event of call c passes authentication and names a publisher
\* the store does not hold for the project.
PublisherMisses(c) ==
    /\ ~AuthFails(c)
    /\ call[c].r.Header[1].PubId # ""
    /\ GetPublisherByPubKeyAndProjectName(call[c].r.Header[1].PubId, Project.Name).e # Nil

\* C5: when pub_id is non-empty and the (pub_id, project_name) lookup misses,
\* the returned result has a non-empty ErrMsg and no handler was invoked.
C5_PublisherMissReported ==
    \A c \in Calls :
        (call[c].pc # "idle" /\ PublisherMisses(c)) =>
            /\ Returned(c)
            /\ call[c].ret[1].ErrMsg # ""
            /\ \A k \in 1..MaxHandlers : task[c][k].pc = "none"

\* The invocations inside instance o.
Inside(o) ==
    { ck \in Calls \X (1..MaxHandlers) :
        task[ck[1]][ck[2]].pc = "guest" /\ task[ck[1]][ck[2]].i = o }

\* C6: invocations of HandleEvent on one instance are serialized: at most one
\* invocation, of whatever call or strategy, is inside an instance (reading and
\* copying its memory, changing its ExportFuncs), and it is the holder of mu.
C6_SerializedPerInstance ==
    \A o \in Objs :
        /\ Cardinality(Inside(o)) <= 1
        /\ \A ck \in Inside(o) : mu[o] = Some(ck)
        /\ mu[o] # Nil => mu[o][1] \in Inside(o)

\* C6 witness: an invocation is inside an instance while a sibling of the same
\* event and a handler of the other call wait to enter the same instance.
C6_Witness ==
    \E o \in Objs, k1, k2, k3 \in 1..MaxHandlers :
        /\ k1 # k2
        /\ task["http"][k1].pc = "guest" /\ task["http"][k1].i = o
        /\ task["http"][k2].pc = "spawned" /\ task["http"][k2].i = o
        /\ task["mqtt"][k3].pc = "spawned" /\ task["mqtt"][k3].i = o

\* C7: the dispatcher never panics: whatever the event, absent header included,
\* the call returns normally with a non-nil result.
C7_NeverPanics ==
    \A c \in Calls :
        /\ call[c].pc # "panicked"
        /\ Returned(c) => call[c].ret # Nil

\* C8: no returned WasmResults entry with Code = 0 comes from an instance that
\* DelInstance had removed from the registry before its handler was invoked.
C8_NoSuccessAfterDestroy ==
    \A c \in Calls :
        Returned(c) =>
            \A k \in Matched(c) :
                (task[c][k].pc = "done" /\ task[c][k].entryDestroyed) =>
                    /\ task[c][k].result[1].Code # 0
                    /\ Count(task[c][k].result[1], call[c].ret[1].WasmResults) >= 1

\* C9: the guest handler runs only on an instance that is STARTED when
\* HandleEvent is invoked; on any other state the invocation yields the
\* NoInstance result (code -1) and the guest does not run.
C9_OnlyStartedRuns ==
    [][\A c \in Calls, k \in 1..MaxHandlers :
        /\ (task[c][k].pc = "spawned" /\ task'[c][k].pc # "spawned") =>
            IF state[task[c][k].i] = InstanceState_Started
            THEN task'[c][k].pc = "guest"
            ELSE /\ task'[c][k].pc = "done"
                 /\ task'[c][k].result[1].Code = -1
                 /\ task'[c][k].result =
                        Some(EventHandleResult(call[c].handlers[k].InstanceID, -1,
                                               "instance not found"))
        /\ (task[c][k].pc # "guest" /\ task'[c][k].pc = "guest") =>
            state[task[c][k].i] = InstanceState_Started
    ]_vars

\* C9 witness: a handler of a registered instance that is CREATED or STOPPED
\* ended with the NoInstance result.
C9_Witness ==
    \E c \in Calls, k \in 1..MaxHandlers :
        /\ task[c][k].pc = "done"
        /\ Registered(task[c][k].i)
        /\ task[c][k].i \notin destroyed
        /\ state[task[c][k].i] \in {InstanceState_Created, InstanceState_Stopped}
        /\ task[c][k].result =
                Some(EventHandleResult(call[c].handlers[k].InstanceID, -1,
                                       "instance not found"))

\* Whether the event of call c carries a valid token of another project.
OtherProjectToken(c) ==
    /\ call[c].r.Header # Nil
    /\ call[c].r.Header[1].Token # ""
    /\ LET parsed == ParseToken(Project.SignKey, call[c].r.Header[1].Token)
           id == UnmarshalText(parsed.claim.Payload.v)
       IN  /\ parsed.err = Nil
           /\ parsed.claim.Payload.isString
           /\ id.err = Nil
           /\ id.id # Project.ProjectID

\* C10 as stated: a valid token of another project yields ErrMsg = "no project
\* permission" and an empty WasmResults.
C10_NoProjectPermissionText ==
    \A c \in Calls :
        (call[c].pc # "idle" /\ OtherProjectToken(c)) =>
            /\ Returned(c)
            /\ call[c].ret[1].ErrMsg = "no project permission"
            /\ call[c].ret[1].WasmResults = <<>>

\* C10 as amended: a valid token of another project makes OnEventReceived return
\* the NoProjectPermission error, with ErrMsg that error's Error() text (the
\* rendering of its StatusErr) and an empty WasmResults.
C10_NoProjectPermissionError ==
    \A c \in Calls :
        (call[c].pc # "idle" /\ OtherProjectToken(c)) =>
            /\ Returned(c)
            /\ call[c].err = Some(NoProjectPermission)
            /\ call[c].ret[1].ErrMsg = Error(NoProjectPermission)
            /\ call[c].ret[1].ErrMsg # ""
            /\ call[c].ret[1].WasmResults = <<>>
            /\ \A k \in 1..MaxHandlers : task[c][k].pc = "none"

\* C10 witness: a returned call whose event carried a valid token of another
\* project.
C10_Witness ==
    \E c \in Calls :
        /\ Returned(c)
        /\ OtherProjectToken(c)
        /\ call[c].err = Some(NoProjectPermission)

\* Whether the event of call c carries a header whose token is empty or cannot
\* be parsed under the project's signing key.
TokenEmptyOrUnparseable(c) ==
    /\ call[c].r.Header # Nil
    /\ \/ call[c].r.Header[1].Token = ""
       \/ ParseToken(Project.SignKey, call[c].r.Header[1].Token).err # Nil

\* C11: an event whose token is empty, or whose token cannot be parsed under the
\* project's signing key, is rejected with the error InvalidAuthValue.
C11_RejectedWithInvalidAuthValue ==
    \A c \in Calls :
        (call[c].pc # "idle" /\ TokenEmptyOrUnparseable(c)) =>
            /\ Returned(c)
            /\ call[c].err = Some(InvalidAuthValue)

\* Whether the event of call c passed authentication and the strategy resolver
\* answered its lookup with no match.
NoStrategyMatched(c) ==
    /\ ~AuthFails(c)
    /\ call[c].found = Some([handlers |-> <<>>, err |-> Nil])

\* C12: when authentication succeeds and the strategy resolver returns no match,
\* OnEventReceived starts no handler task and returns no error, an empty ErrMsg
\* and an empty WasmResults.
C12_NoMatchEmptyResult ==
    \A c \in Calls :
        NoStrategyMatched(c) =>
            /\ \A k \in 1..MaxHandlers : task[c][k].pc = "none"
            /\ call[c].wg = 0 /\ call[c].res = <<>>
            /\ call[c].pc \in {"wait", "returned"}
            /\ Returned(c) =>
                /\ call[c].err = Nil
                /\ call[c].ret[1].ErrMsg = ""
                /\ call[c].ret[1].WasmResults = <<>>

\* C12 witness: a returned call of an authenticated event of a registered
\* publisher for which the resolver matched nothing.
C12_Witness ==
    \E c \in Calls :
        /\ Returned(c)
        /\ NoStrategyMatched(c)
        /\ call[c].strategyLookups = 1
        /\ call[c].r.Header[1].EventType = "t7"
        /\ call[c].ret[1].PubName = "A"

\* The instances AddInstance has stored, and those DelInstance has taken out.
Adds == { o \in Objs : state[o] # NotDeployed }
Removes == destroyed

\* The ids with a registry entry.
Entries == { id \in InstanceIDs : instances[id] # NoObj }

\* C13: every AddInstance returns an id no other live entry uses: no Add
\* overwrites an entry, every added and not removed instance is found under an
\* id, no two share one, and the registry holds Adds minus Removes entries.
C13_AddReturnsUniqueId ==
    /\ \A o \in Adds \ Removes : Registered(o)
    /\ Cardinality(Entries) = Cardinality(Adds) - Cardinality(Removes)

\* The (id, instance) pairs of the DelInstance calls that have returned.
DelReturned == { p \in removed : p[2] \notin delPending }

\* C14: once DelInstance(id) has returned, every later lookup of id finds no
\* instance: the lookup a dispatch is about to make for id finds none, and so
\* yields the "instance not found" result.
C14_RemovedIdStaysAbsent ==
    /\ \A p \in DelReturned : GetConsumer(p[1]) = NoObj
    /\ \A c \in Calls :
        call[c].pc = "fanout" =>
            LET id == call[c].handlers[call[c].k].InstanceID
            IN  (\E p \in DelReturned : p[1] = id) => GetConsumer(id) = NoObj

\* C15: DelInstance(id) on a STARTED instance stops it first and deletes the
\* registry entry afterwards: no instance that DelInstance has taken out of the
\* registry is still STARTED.
C15_StoppedBeforeDeleted ==
    \A p \in removed : state[p[2]] # InstanceState_Started

\* A call of fn(id) returning without error in this step, on a registered
\* instance.
ReturnsOnRegistered(fn, id) ==
    /\ op'.n = op.n + 1
    /\ op'.fn = fn /\ op'.id = id /\ op'.err = Nil
    /\ instances[id] # NoObj

\* C16: after StartInstance(id) returns without error on a registered instance
\* in CREATED, STOPPED or STARTED, the instance is STARTED and GetInstanceState(id)
\* reports STARTED.
C16_StartInstanceStarts ==
    [][\A id \in InstanceIDs :
        (/\ ReturnsOnRegistered("StartInstance", id)
         /\ state[instances[id]] \in {InstanceState_Created, InstanceState_Stopped,
                                      InstanceState_Started}) =>
            /\ state'[instances[id]] = InstanceState_Started
            /\ GetInstanceStateValue(id) = [state |-> InstanceState_Started, ok |-> TRUE]
    ]_vars

\* C17: after StopInstance(id) returns without error on a registered instance
\* in STARTED or STOPPED, the instance is STOPPED, so that HandleEvent is no
\* longer legal on it.
C17_StopInstanceStops ==
    [][\A id \in InstanceIDs :
        (/\ ReturnsOnRegistered("StopInstance", id)
         /\ state[instances[id]] \in {InstanceState_Started, InstanceState_Stopped}) =>
            /\ state'[instances[id]] = InstanceState_Stopped
            /\ ~HandleEventLegal(instances[id])'
    ]_vars

\* The keys under which an envelope names the event type of its response.
EventTypeKeys == {"eventType", "Eventtype"}

\* Whether slot t holds an api_call task whose payload and envelope decode and
\* whose request can be rebuilt.
ValidEnvelope(t) ==
    /\ apiCall[t].payload # Nil
    /\ apiCall[t].payload[1].payloadOK
    /\ apiCall[t].payload[1].dataOK
    /\ NewRequest(apiCall[t].payload[1].Data).err = Nil

\* The event type the envelope of task t names, "" when it names none.
EventTypeOf(t) ==
    LET h == apiCall[t].payload[1].Data.Header
    IN  IF DOMAIN h \cap EventTypeKeys = {} THEN ""
        ELSE h[CHOOSE k \in DOMAIN h \cap EventTypeKeys : TRUE]

\* Whether the synthetic event e is of the type and project of task t.
SyntheticEventOf(t, e) ==
    /\ e.EventType = EventTypeOf(t)
    /\ e.ProjectName = apiCall[t].payload[1].Project

\* C18: an api_call task with a valid envelope and an eventType header leads to
\* the dispatcher being entered with exactly one synthetic event of that type
\* on the same project: never two, retries or not, and eventually one.
C18_ExactlyOneSyntheticEvent ==
    \A t \in ApiTasks :
        /\ []((ValidEnvelope(t) /\ EventTypeOf(t) # "") =>
                /\ Len(dispatched[t]) <= 1
                /\ \A n \in 1..Len(dispatched[t]) : SyntheticEventOf(t, dispatched[t][n]))
        /\ (ValidEnvelope(t) /\ EventTypeOf(t) # "") ~> (Len(dispatched[t]) = 1)

\* Whether slot t holds an api_call task whose envelope decodes and whose
\* request carries no eventType header.
NoEventTypeHeader(t) == ValidEnvelope(t) /\ EventTypeOf(t) = ""

\* C19: when the original request carries no eventType header, the request
\* worker ends the api_call task with an error wrapping SkipRetry, the task is
\* not run again, no api_result task is enqueued and no synthetic event is
\* dispatched for it.
C19_MissingEventTypeIsFatal ==
    \A t \in ApiTasks :
        NoEventTypeHeader(t) =>
            /\ apiCall[t].runs <= 1
            /\ apiCall[t].enqueued = 0
            /\ apiResult[t].st = "none"
            /\ dispatched[t] = <<>>
            /\ apiCall[t].runs = 1 =>
                /\ apiCall[t].err # Nil
                /\ ErrorsIs(apiCall[t].err[1], SkipRetry)
                /\ apiCall[t].st = "archived"

\* C19 witness: a served request without eventType header whose task ended with
\* the "miss eventType" error.
C19_Witness ==
    \E t \in ApiTasks :
        /\ NoEventTypeHeader(t)
        /\ apiCall[t].runs = 1
        /\ apiCall[t].served = 1
        /\ apiCall[t].err = Some(Errorf("miss eventType", SkipRetry))

\* Whether the request worker cannot decode the payload or the envelope of the
\* api_call task in slot t, or cannot rebuild its HTTP request.
ApiCallUndecodable(t) == apiCall[t].payload # Nil /\ ~ValidEnvelope(t)

\* Whether the last run of the api_call task in slot t failed to read or marshal
\* the response.
ApiCallEncodeFailed(t) ==
    apiCall[t].err # Nil /\ apiCall[t].err[1].s = "encode http response failed"

\* Whether slot t holds an api_result task whose payload does not decode.
ApiResultUndecodable(t) == apiResult[t].st # "none" /\ apiResult[t].payload = Nil

\* C20: in both workers a failure to decode the task payload, to decode the
\* envelope, to rebuild the HTTP request or to marshal the response yields an
\* error wrapping SkipRetry, and the task is run once and never again.
C20_DecodeFailuresNotRetried ==
    \A t \in ApiTasks :
        /\ ((ApiCallUndecodable(t) \/ ApiCallEncodeFailed(t)) /\ apiCall[t].runs > 0) =>
            /\ apiCall[t].err # Nil
            /\ ErrorsIs(apiCall[t].err[1], SkipRetry)
            /\ apiCall[t].runs = 1
            /\ apiCall[t].st = "archived"
            /\ apiCall[t].enqueued = 0
        /\ (ApiResultUndecodable(t) /\ apiResult[t].runs > 0) =>
            /\ apiResult[t].err # Nil
            /\ ErrorsIs(apiResult[t].err[1], SkipRetry)
            /\ apiResult[t].runs = 1
            /\ apiResult[t].st = "archived"
            /\ dispatched[t] = <<>>

\* C20 witness: an api_call task with an undecodable envelope and an
\* api_result task with an undecodable payload, both run once and archived.
C20_Witness ==
    \E t, u \in ApiTasks :
        /\ ApiCallUndecodable(t)
        /\ apiCall[t].payload[1].payloadOK
        /\ apiCall[t].st = "archived"
        /\ ApiResultUndecodable(u)
        /\ apiResult[u].st = "archived"

\* Whether the last run of the api_call task in slot t failed to enqueue the
\* api_result task.
EnqueueFailed(t) ==
    apiCall[t].err # Nil /\ apiCall[t].err[1].s = "could not enqueue task"

\* Whether the last run of the api_result task in slot t failed to re-enter
\* the dispatcher.
SendEventFailed(t) ==
    apiResult[t].err # Nil /\ apiResult[t].err[1].s = "send event failed"

\* C21: transport failures are retryable: a failed enqueue of the api_result in
\* the request worker and a failed re-entry of the dispatcher in the result
\* worker end the task with an error not wrapping SkipRetry, and the queue runs
\* the task again until its retries are used up.
C21_TransportFailuresRetried ==
    \A t \in ApiTasks :
        /\ EnqueueFailed(t) =>
            /\ ~ErrorsIs(apiCall[t].err[1], SkipRetry)
            /\ apiCall[t].st = "archived" => apiCall[t].runs = MaxRetry + 1
        /\ SendEventFailed(t) =>
            /\ ~ErrorsIs(apiResult[t].err[1], SkipRetry)
            /\ apiResult[t].st = "archived" => apiResult[t].runs = MaxRetry + 1

AbiStep(fn) == abi'.fn = fn

\* What resource id rid holds, as GetData would find it.
Resource(e, rid) == Load(e.res, Uint32(rid))

\* C23: after SetData(rid, v) returned OK, whether it replaced or created the
\* entry, a GetData(rid) on the same instance whose out pointers lie in the
\* guest's memory returns OK and copies out exactly v, the value of the last
\* such SetData; and a SetData(rid, v) that returns OK leaves the value under
\* every other rid as it was.
C23_SetDataGetDataRoundTrip ==
    [][ /\ ( /\ AbiStep("GetData")
             /\ written.data[abi'.k[1]] # Nil
             /\ abi'.fault # "copy" )
            => ( /\ abi'.status = ResultStatusCode.OK
                 /\ abi'.out = written.data[abi'.k[1]] )
        /\ ( AbiStep("SetData") /\ abi'.status = ResultStatusCode.OK )
            => ( /\ Resource(ef', abi'.k[1]) = [data |-> written'.data[abi'.k[1]][1], ok |-> TRUE]
                 /\ \A r \in Rids \ {abi'.k[1]} : Resource(ef', r) = Resource(ef, r) )
      ]_vars

\* A GetData(-1) copied out the value a SetData replaced the earlier one with,
\* while rid 0 holds another value.
C23_Witness ==
    /\ abi.fn = "GetData"
    /\ abi.k = Some(-1)
    /\ abi.status = ResultStatusCode.OK
    /\ abi.out = Some(<<"{">>)
    /\ written.data[-1] = Some(<<"{">>)
    /\ written.data[0] = Some(<<>>)
    /\ Resource(ef, 0) = [data |-> <<>>, ok |-> TRUE]

C25_BoundsViolationStatus ==
    /\ abi.fault = "read" => abi.status = ResultStatusCode.TransDataFromVMFailed
    /\ abi.fault = "copy" => abi.status = ResultStatusCode.TransDataToVMFailed

\* C26: submit_metrics forwards a payload to the collector only when it is a
\* valid JSON object; invalid JSON, an array and any other JSON value are
\* answered with Failed and nothing is forwarded.
C26_OnlyObjectsForwarded ==
    ( abi.fn = "StatSubmit" /\ abi.k # Nil /\ ~(Valid(abi.k[1]) /\ IsObject(abi.k[1])) )
        => ( abi.status = ResultStatusCode.Failed /\ abi.fwd = Nil )

\* Whether call c met a failure before the fan-out: the authentication, the
\* publisher lookup or the strategy lookup failed.
FailedEarly(c) ==
    \/ AuthFails(c)
    \/ PublisherMisses(c)
    \/ call[c].found # Nil /\ call[c].found[1].err # Nil

\* C27: in the result OnEventReceived returns, ErrMsg is non-empty exactly
\* when the returned error is non-nil, and is then that error's message; and
\* every return that delivers no handler results because of a failure returns
\* a non-nil error.
C27_ErrMsgIffError ==
    \A c \in Calls :
        Returned(c) =>
            /\ (call[c].ret[1].ErrMsg # "") <=> (call[c].err # Nil)
            /\ call[c].err # Nil => call[c].ret[1].ErrMsg = Error(call[c].err[1])
            /\ FailedEarly(c) => call[c].err # Nil

\* The goroutines of call c that have not sent their result yet.
Unsent(c) == { k \in 1..MaxHandlers : task[c][k].pc \in {"spawned", "guest"} }

\* The fan-out iterations call c has still to run; each sends one result or
\* starts one goroutine.
ToFanOut(c) == IF call[c].pc = "fanout" THEN Len(call[c].handlers) - call[c].k + 1 ELSE 0

\* C28: OnEventReceived cannot deadlock on its result channel: the results
\* sent and the results still to be sent never exceed the channel's capacity,
\* so every send finds room; no goroutine is left to send once the call has
\* closed the channel and returned; and once every started HandleEvent has
\* finished, the wait group is at zero and the call can close, drain and return.
C28_NoSendBlocks ==
    \A c \in Calls :
        /\ Len(call[c].res) + Cardinality(Unsent(c)) + ToFanOut(c) <= Cap(c)
        /\ (Unsent(c) # {} \/ call[c].pc = "fanout") => CanSend(c)
        /\ Returned(c) => Unsent(c) = {}
        /\ (call[c].pc = "wait" /\ Unsent(c) = {}) => call[c].wg = 0

\* C28 witness: two handlers matched, the result for an absent instance sits in
\* the channel, and the goroutine of the present one is inside the guest with
\* its send still to come.
C28_Witness ==
    \E c \in Calls :
        /\ call[c].pc = "wait"
        /\ Len(call[c].handlers) = 2
        /\ Len(call[c].res) = 1
        /\ \E j, k \in Matched(c) : task[c][j].pc = "none" /\ task[c][k].pc = "guest"

\* C29: HandleEvents returns one non-nil result per input event, in input
\* order, result k carrying the id of event k; a failure on one event
\* (authentication, resolution or handler) does not stop the loop, which goes
\* on to the later events.
C29_OneResultPerEvent ==
    /\ batch.pc = "loop" => call["http"].pc # "panicked"
    /\ \A k \in 1..Len(batch.results) :
        /\ batch.results[k] # Nil
        /\ batch.results[k][1].EventID = batch.events[k].Header[1].EventId
    /\ batch.pc = "loop" => Len(batch.results) = batch.i - 1
    /\ batch.pc = "returned" => Len(batch.results) = Len(batch.events)

\* C30: however many DelInstance(id) calls run concurrently on one id, at most
\* one of them ever holds the instance and so may invoke its Stop, the call
\* whose LoadAndRemove took the entry out, and Stop is invoked by no other
\* step of DelInstance; every call returns nil; and a DelInstance on an id the
\* registry does not hold changes nothing.
C30_DelInstanceStopsOnce ==
    [][ /\ \A o \in Objs :
            /\ del'.held[o] <= 1
            /\ del'.held[o] > del.held[o] =>
                    /\ o \in delPending
                    /\ \E id \in InstanceIDs : <<id, o>> \in removed
            /\ (o \in destroyed /\ state[o] = InstanceState_Started
                    /\ state'[o] # InstanceState_Started) =>
                    del'.held[o] > del.held[o]
        /\ del'.ret # Nil => del'.ret[1].err = Nil
        /\ (del'.ret # del.ret /\ ~del'.ret[1].found) =>
                UNCHANGED <<instances, state, delPending, destroyed, removed>>
      ]_vars

\* C30 witness: two DelInstance calls on one id side by side: the first took
\* the STARTED instance out and has not stopped it yet; the second found
\* nothing under the id and has returned nil.
C30_Witness ==
    \E o \in Objs :
        /\ o \in delPending
        /\ state[o] = InstanceState_Started
        /\ del.held[o] = 0
        /\ del.ret # Nil
        /\ ~del.ret[1].found /\ del.ret[1].err = Nil
        /\ del.ret[1].pending = {o}
        /\ <<del.ret[1].id, o>> \in removed

\* Whether the step is one execution of the request worker on the task in
\* slot t.
RequestWorkerRuns(t) == apiCall'[t].runs = apiCall[t].runs + 1

\* Whether the execution of the request worker on slot t ended with the error
\* msg.
FailedWith(t, msg) == apiCall'[t].err # Nil /\ apiCall'[t].err[1].s = msg

\* C31: in one execution of the request worker the HTTP request is served at
\* most once and at most one api_result task is enqueued; the api_result is
\* enqueued only when the request was served and carries the captured response;
\* a request whose eventType header is missing or whose api_result task cannot
\* be built is served before the task is failed.
C31_ServedOnceThenEnqueued ==
    [][\A t \in ApiTasks :
        RequestWorkerRuns(t) =>
            LET served == apiCall'[t].served - apiCall[t].served
                enqueued == apiCall'[t].enqueued - apiCall[t].enqueued
            IN  /\ served \in {0, 1}
                /\ enqueued \in {0, 1}
                /\ enqueued = 1 =>
                    /\ served = 1
                    /\ apiResult[t].st = "none"
                    /\ apiResult'[t].st = "pending"
                    /\ Unmarshal(Unmarshal(apiResult'[t].payload[1]).Data).Body
                            = ServeHTTP(apiCall[t].payload[1].Data).Body
                /\ enqueued = 0 => apiResult'[t] = apiResult[t]
                /\ (FailedWith(t, "miss eventType")
                        \/ FailedWith(t, "new api result task failed")) =>
                    /\ served = 1
                    /\ enqueued = 0
                    /\ apiCall'[t].st = "archived"
      ]_vars

\* C31 witness: one request served and its api_result enqueued, another served
\* and failed for its missing eventType header, each in a single execution.
C31_Witness ==
    \E t, u \in ApiTasks :
        /\ apiCall[t].runs = 1 /\ apiCall[t].served = 1
        /\ apiCall[t].enqueued = 1 /\ apiResult[t].st # "none"
        /\ apiCall[u].runs = 1 /\ apiCall[u].served = 1
        /\ apiCall[u].enqueued = 0
        /\ apiCall[u].err = Some(Errorf("miss eventType", SkipRetry))
        /\ apiCall[u].st = "archived"

\* The header map of the response envelope enqueued for slot t.
EnvelopeHeader(t) == Unmarshal(Unmarshal(apiResult[t].payload[1]).Data).Header

\* The header map of the original request of slot t.
RequestHeader(t) == apiCall[t].payload[1].Data.Header

\* The header map of the response served for the request of slot t.
ServedHeader(t) == ServeHTTP(apiCall[t].payload[1].Data).Header

\* C32: the header map of the response envelope is the served response's
\* headers overridden by every header of the original request except
\* Content-Type: each request header key other than Content-Type carries the
\* request's value, Content-Type carries the response's own value, and every
\* other key is the response's.
C32_EnvelopeHeaderMerge ==
    \A t \in ApiTasks :
        (apiCall[t].enqueued > 0 /\ apiResult[t].payload # Nil) =>
            /\ DOMAIN EnvelopeHeader(t) =
                    DOMAIN ServedHeader(t)
                        \cup (DOMAIN RequestHeader(t) \ {"Content-Type"})
            /\ \A k \in DOMAIN RequestHeader(t) \ {"Content-Type"} :
                    EnvelopeHeader(t)[k] = RequestHeader(t)[k]
            /\ \A k \in DOMAIN ServedHeader(t) :
                    (k = "Content-Type" \/ k \notin DOMAIN RequestHeader(t)) =>
                        EnvelopeHeader(t)[k] = ServedHeader(t)[k]

\* C32 witness: an enqueued envelope whose request carried a Content-Type and a
\* Server header, both different from the response's: Server is the request's,
\* Content-Type the response's.
C32_Witness ==
    \E t \in ApiTasks :
        /\ apiCall[t].enqueued > 0 /\ apiResult[t].payload # Nil
        /\ {"Content-Type", "Server"} \subseteq DOMAIN RequestHeader(t)
        /\ RequestHeader(t)["Content-Type"] # ServedHeader(t)["Content-Type"]
        /\ RequestHeader(t)["Server"] # ServedHeader(t)["Server"]
        /\ EnvelopeHeader(t)["Server"] = "guest"
        /\ EnvelopeHeader(t)["Content-Type"] = "application/json"

\* C33: a Host ABI write that returns a non-OK status leaves the store it
\* targets unchanged: a SetData that fails to read the guest memory leaves the
\* whole resource map as it was, and a SetDB that fails to read the key or the
\* value writes nothing to the KV store.
C33_FailedWriteLeavesStore ==
    [][ /\ ( AbiStep("SetData") /\ abi'.status # ResultStatusCode.OK )
            => ( /\ abi'.fault = "read"
                 /\ ef'.res = ef.res
                 /\ ef'.kvs = ef.kvs )
        /\ ( AbiStep("SetDB") /\ abi'.status = ResultStatusCode.ResourceNotFound )
            => ( /\ abi'.fault = "read"
                 /\ ef'.kvs = ef.kvs
                 /\ ef'.res = ef.res )
      ]_vars

\* C33 witness: a SetData whose read left the memory returned
\* TransDataToVMFailed while the resource it names and a KV key hold the values
\* written earlier.
C33_Witness ==
    /\ abi.fn = "SetData"
    /\ abi.status = ResultStatusCode.TransDataToVMFailed
    /\ abi.fault = "read"
    /\ written.data[abi.k[1]] # Nil
    /\ written.data[abi.k[1]][1] # <<>>
    /\ Resource(ef, abi.k[1]) = [data |-> written.data[abi.k[1]][1], ok |-> TRUE]
    /\ \E k \in KvKeys : written.db[k] # Nil /\ ef.kvs[k] = written.db[k]

\* Whether the last Upload was of a file larger than the upload limit.
OverLimit == up.ret # Nil /\ up.ret[1].size > up.ret[1].limit

\* Whether the last Upload found less free space than the file size plus the
\* reserve.
DiskShort ==
    /\ up.ret # Nil /\ up.ret[1].stat # Nil
    /\ up.ret[1].stat[1].Free < up.ret[1].size + reserve

\* C34: Upload fails with a non-nil error and writes no destination file
\* whenever the file's size exceeds the upload limit and whenever the free disk
\* space is below the file size plus the reserve; it never returns a nil error
\* without having copied the file.
C34_UploadRejects ==
    /\ (OverLimit \/ DiskShort) =>
            (up.ret[1].err # Nil /\ ~up.ret[1].opened)
    /\ (up.ret # Nil /\ up.ret[1].err = Nil) => up.ret[1].copied

\* An Upload over the limit or short of disk space never opens the destination
\* file and leaves it as it was.
RejectedUploadOpensNothing ==
    [][ ( /\ up'.ret # up.ret
          /\ \/ up'.ret[1].size > up'.ret[1].limit
             \/ /\ up'.ret[1].stat # Nil
                /\ up'.ret[1].stat[1].Free < up'.ret[1].size + reserve )
        => ( ~up'.ret[1].opened /\ up'.file = up.file ) ]_vars

====
